---- MODULE Spec2Model ----
(***************************************************************************)
(* State-machine model of the SNES-controllers-to-USB firmware:            *)
(*   - the cross-core watchdog supervisor   (firmware/src/watchdog.cpp)    *)
(*   - the USB topology manager and the configuration descriptor           *)
(*     (firmware/src/usb_descriptors.cpp)                                  *)
(* Time is counted in FreeRTOS ticks.  A task blocked in vTaskDelay(n)     *)
(* holds a remaining delay; Tick advances time to the next expiry.  Code   *)
(* between two blocking calls takes no time, and a task that is ready runs *)
(* before time advances (both watchdog tasks have the highest application  *)
(* priority and a core each).                                              *)
(***************************************************************************)
EXTENDS Integers, Sequences, FiniteSets, TLC

\* ------------------------------------------------------------------------
\* Bounds of the model
\* ------------------------------------------------------------------------

\* the watchdog_update() calls are counted modulo MaxPets + 1
MaxPets == 2

\* longest run of consecutive heartbeats one core's task may miss
MaxMissRun == 2

\* a captured word has at most this many of its bits set
MaxBitsSet == 5

\* ------------------------------------------------------------------------
\* Program constants
\* ------------------------------------------------------------------------

cpu_cores == 2

\* vTaskDelay(50) in watchdog_cpu_task
HeartbeatPeriod == 50

\* vTaskDelay(30) in watchdog_task
AggregatorPeriod == 30

\* watchdog_enable(200, true)
WatchdogTimeout == 200

\* vTaskDelay(100) between tud_disconnect() and tud_connect()
SettleDelay == 100

\* lengths of the tinyusb descriptor macros' expansions
TUD_CONFIG_DESC_LEN == 9
TUD_CDC_DESC_LEN == 66
TUD_HID_DESC_LEN == 25

\* tusb_config.h: HID interfaces the USB stack is built for, and the size of
\* a HID endpoint buffer
CFG_TUD_HID == 4
CFG_TUD_HID_EP_BUFSIZE == 64

\* interface numbers (the anonymous enum) and endpoint addresses
ITF_NUM_CDC == 0
ITF_NUM_CDC_DATA == 1
ITF_NUM_HID_BASE == 2
EPNUM_CDC_NOTIF == 129
EPNUM_CDC_OUT == 2
EPNUM_CDC_IN == 130
EPNUM_HID_BASE == 3

Cores == 0 .. (cpu_cores - 1)

\* the tasks that call usb_enable_controller / usb_disable_controller
Callers == {"poll"}

\* the port indices: P1 == 0, P2 == 1, P3 == 2, P4 == 3
PortIndex == 0 .. 3

\* the HID instances hid_task handles: tud_hid_n_ready(0), tud_hid_n_ready(1)
HidInstances == {0, 1}

\* controller_state values {x, y, buttons} that hid_task draws: the neutral
\* one and one with a button pressed
HidStates == { << 0, 0, 0 >>, << 0, 0, 1 >> }

\* What the block of one HID instance did in a cycle: "skip" (the instance
\* was not ready), "wakeup" (tud_remote_wakeup), "same" (the state equals
\* last_data, nothing sent) or "report" (tud_hid_n_report).
Outcome(did, data) == [did |-> did, data |-> data]

\* the tasks that may call into the topology manager at all
Tasks == {"poll", "other"}

\* the uint8_t arguments the calls are made with: the port indices 0..3, the
\* single-bit masks 1, 2, 4, 8, and two values with bits above the low four
UsbArgs == {0, 1, 2, 3, 4, 8, 16, 255}

Min(S) == CHOOSE x \in S : \A y \in S : x <= y

\* ------------------------------------------------------------------------
\* uint8_t arithmetic
\* ------------------------------------------------------------------------

Pow2(i) == 2 ^ i

Bit(n, i) == (n \div Pow2(i)) % 2

RECURSIVE BitAndFrom(_, _, _)
BitAndFrom(a, b, i) ==
    IF i > 7 THEN 0
    ELSE Bit(a, i) * Bit(b, i) * Pow2(i) + BitAndFrom(a, b, i + 1)

\* a & b
BitAnd(a, b) == BitAndFrom(a, b, 0)

\* a | b
BitOr(a, b) == a + b - BitAnd(a, b)

\* a & ~b, truncated to uint8_t
BitAndNot(a, b) == a - BitAnd(a, b)

RECURSIVE PopCountFrom(_, _)
PopCountFrom(n, i) ==
    IF i > 7 THEN 0 ELSE Bit(n, i) + PopCountFrom(n, i + 1)

\* std::popcount
PopCount(n) == PopCountFrom(n, 0)

\* U16_TO_U8S_LE
U16_TO_U8S_LE(n) == << n % 256, (n \div 256) % 256 >>

\* The tasks init_task creates that take part in the kill path, by the name
\* given to xTaskCreate.
InitTaskNames == {"watchdog", "prb_cli", "wifi"}

\* main.cpp watchdog_task: vTaskDelay(50)
MainWatchdogPeriod == 50

\* init_wifi: for (; retry < 10; ++retry)
WifiAttempts == 10

\* syslog<max_size>: the size of the log in bytes, scaled down
max_size == 4

\* records the log is let grow to by messages of size 0
MaxRecords == 4

\* the tasks that use sys_log
LogTasks == {"wifi", "prb_cli"}

\* str.size() of the messages pushed by a single task: empty, short, one less
\* than the log holds, one more than the log holds
PushSizes == {0, 1, 2, max_size - 1, max_size + 1}

\* str.size() of the messages pushed by concurrent tasks
LogSizes == {1, max_size + 1}

\* the safe_syslog operations called
LogOps == {"push", "size", "register"}

RECURSIVE SumSizes(_)
SumSizes(logs) == IF logs = << >> THEN 0 ELSE Head(logs) + SumSizes(Tail(logs))

\* std::expected: a value, or an error
Expected(v) == [has_value |-> TRUE, val |-> v]
Unexpected(e) == [has_value |-> FALSE, val |-> e]

\* what ::accept returns: a socket number, or -1 with errno set
AcceptSockets == {5, 6, 7}
AcceptErrnos == {23, 103}

\* what recv(sock, buffer, 4, 0) returns
RecvAmounts == {-1, 0, 3, 4}

\* the four bytes received
RecvBuffers ==
    {<< 0, 0, 0, 0 >>, << 0, 0, 0, 1 >>, << 0, 0, 1, 0 >>, << 1, 2, 3, 4 >>}

\* memcpy(&result, buffer, sizeof(result)); result = ntohl(result): the
\* bytes taken most significant first
Ntohl(b) == ((b[1] * 256 + b[2]) * 256 + b[3]) * 256 + b[4]

\* errno.h
ENXIO == 6

\* the tasks that write to and read from the serial console
CdcTasks == {"prb_cli", "wifi"}

\* data.size() / buffer.size() of the spans passed to write and read
CdcSizes == {1, 2}

VARIABLES
    wdCreated,            \* initialize_watchdog_tasks() has created the tasks
    watchdog_cpu_status,  \* the per-core liveness flags
    cpuDelay,             \* ticks left of each heartbeat task's vTaskDelay
    cpuStalled,           \* cores whose heartbeat task has stopped for good
    missRun,              \* heartbeats each core has missed in a row
    worstMiss,            \* longest run of missed heartbeats so far
    wdPc,                 \* aggregator: "enable", "check", "update", "fill"
    wdIdx,                \* aggregator: index all_of / fill has reached
    wdDelay,              \* ticks left of the aggregator's vTaskDelay
    wdStalled,            \* the aggregator task has stopped for good
    hwArmed,              \* hardware watchdog enabled
    hwLeft,               \* ticks until the hardware watchdog expires
    hwReset,              \* the hardware watchdog has reset the device
    pets,                 \* watchdog_update() calls, modulo MaxPets + 1
    quietCycle,           \* per core: an aggregation cycle has ended since
                          \* the core's task last set its flag
    active_controllers,   \* the active-controller mask (std::atomic<uint8_t>)
    tudConnected,         \* the USB stack is attached to the bus
    usbPc,                \* per caller: "idle", "store", "disconnect",
                          \* "settle", "done"
    usbOp,                \* per caller: "enable" or "disable" ("none": no
                          \* call made yet)
    usbArg,               \* per caller: the argument the call was made with
    usbLoaded,            \* per caller: the mask value the call loaded
    usbActive,            \* per caller: the local variable active
    usbDelay,             \* per caller: ticks left of vTaskDelay(100)
    usbDisc,              \* per caller: tud_disconnect() calls of this call
    usbConn,              \* per caller: tud_connect() calls of this call
    desc_configuration,   \* the configuration descriptor, a byte sequence
    descMask,             \* the mask value of the most recent rebuild
    cbPc,                 \* USB task: "idle", "assign", "loop", "xfer"
    cbMask,               \* update_configuration: controller_bitmask
    cbI,                  \* update_configuration: i
    cbCount,              \* update_configuration: count
    hostGot,              \* bytes of the descriptor handed to the host in
                          \* the transfer in progress
    gotActive,            \* what usb_get_active_controllers() returned last
    getSeq,               \* flips at every usb_get_active_controllers() call
    hidPc,                \* hid_task: "wait", "ready", "suspended", "report"
    hidSlot,              \* hid_task: the HID instance being handled
    hidData,              \* hid_task: data
    last_data,            \* hid_task: last_data
    hidOutcome,           \* per HID instance: what the block of the instance
                          \* did when it last ran, and with which state
    hidLastSent,          \* per HID instance: the state of the last report
                          \* sent on it (<< >>: none sent yet)
    tudSuspended,         \* the bus is suspended: what tud_suspended() returns
    cfgHid,               \* HID interfaces of the configuration the host has
                          \* set (0: not configured)
    smData,               \* per port i: the word pio_sm_get(pio_, i) yields
    trigResult,           \* what the last pio_controllers::trigger() returned
                          \* (<< >>: it has not been called)
    stopFlag,             \* per core: the value of its flag when its
                          \* heartbeat task stopped ("none": still running)
    stopPets,             \* per core: watchdog_update() calls since its
                          \* heartbeat task stopped, counted up to 2
    freshBeat,            \* per core: its task has set the flag since the
                          \* last all_of that returned true
    taskPc,               \* tasks of init_task, by name: "none" (not
                          \* created), "deleted", or where the task is
    mwDelay,              \* ticks left of vTaskDelay(50) of task "watchdog"
    retry,                \* init_wifi: retry
    killedBy,             \* the task that deleted task "watchdog"
                          \* ("none": nobody has)
    logs_,                \* syslog: the record sizes, oldest first
    space_available_,     \* syslog: space_available_
    callback_,            \* syslog: a push callback is registered
    mutex_,               \* safe_syslog: count of the binary semaphore
    logPc,                \* per task: "idle", "take", "body", "callback",
                          \* "give"
    logOp,                \* per task: the safe_syslog operation under way
    logArg,               \* per task: size of the message being pushed
    logRet,               \* per task: what size() returned last
    pushed,               \* the last syslog::push: the size of its message,
                          \* the records it evicted, whether it stored
    netPc,                \* network_task: "accept", "handle", "branch",
                          \* "terminated"
    result,               \* network_task: result, what accept() returned
    request_result,       \* network_task: request_result
    netLog,               \* network_task: the message it pushed last
    netConnections,       \* connections accepted so far, modulo 3
    connected_,           \* cdc_device: connected_ (std::atomic_bool)
    hostCdc,              \* what tud_cdc_connected() returns: the host has
                          \* the serial port open
    cdcPc,                \* per task: "idle", or "spin" in read's
                          \* while(!tud_cdc_available())
    cdcOp,                \* per task: the last call, "write" or "read"
    cdcRet,               \* per task: what the last call returned
    cdcStack,             \* per task: the last call called into the USB stack
    errno,                \* errno
    connWriter            \* who stored connected_ last

wdVars == << wdCreated, watchdog_cpu_status, cpuDelay, cpuStalled, missRun,
             worstMiss, wdPc, wdIdx, wdDelay, wdStalled, hwArmed, hwLeft,
             hwReset, pets, quietCycle >>

usbVars == << active_controllers, tudConnected, usbPc, usbOp, usbArg,
              usbLoaded, usbActive, usbDelay, usbDisc, usbConn >>

descVars == << desc_configuration, descMask >>

cbVars == << cbPc, cbMask, cbI, cbCount, hostGot, gotActive, getSeq >>

hidVars == << hidPc, hidSlot, hidData, last_data, hidOutcome, hidLastSent,
              tudSuspended, cfgHid >>

pioVars == << smData, trigResult >>

beatVars == << stopFlag, stopPets, freshBeat >>

killVars == << taskPc, mwDelay, retry, killedBy >>

logVars == << logs_, space_available_, callback_, mutex_, logPc, logOp,
              logArg, logRet, pushed >>

netVars == << netPc, result, request_result, netLog, netConnections >>

cdcVars == << connected_, hostCdc, cdcPc, cdcOp, cdcRet, cdcStack, errno,
              connWriter >>

auxVars == << beatVars, killVars, logVars, netVars, cdcVars >>

vars == << wdVars, usbVars, descVars, cbVars, hidVars, pioVars, auxVars >>

\* ------------------------------------------------------------------------
\* Initial state: static initialisation done, no task created yet
\* ------------------------------------------------------------------------

InitWatchdog ==
    /\ wdCreated = FALSE
    /\ watchdog_cpu_status = [c \in Cores |-> FALSE]
    /\ cpuDelay = [c \in Cores |-> 0]
    /\ cpuStalled = {}
    /\ missRun = [c \in Cores |-> 0]
    /\ worstMiss = 0
    /\ wdPc = "enable"
    /\ wdIdx = 0
    /\ wdDelay = 0
    /\ wdStalled = FALSE
    /\ hwArmed = FALSE
    /\ hwLeft = 0
    /\ hwReset = FALSE
    /\ pets = 0
    /\ quietCycle = [c \in Cores |-> FALSE]

InitUsb ==
    /\ active_controllers = 0
    /\ tudConnected = TRUE
    /\ usbPc = [t \in Tasks |-> "idle"]
    /\ usbOp = [t \in Tasks |-> "none"]
    /\ usbArg = [t \in Tasks |-> 0]
    /\ usbLoaded = [t \in Tasks |-> 0]
    /\ usbActive = [t \in Tasks |-> 0]
    /\ usbDelay = [t \in Tasks |-> 0]
    /\ usbDisc = [t \in Tasks |-> 0]
    /\ usbConn = [t \in Tasks |-> 0]

InitDescriptor ==
    /\ desc_configuration = << >>
    /\ descMask = 0

\* The USB task has served no request yet; nothing has read the mask.
InitUsbTask ==
    /\ cbPc = "idle"
    /\ cbMask = 0
    /\ cbI = 0
    /\ cbCount = 0
    /\ hostGot = << >>
    /\ gotActive = 0
    /\ getSeq = 0

\* hid_task before its loop: controller_state last_data{}.
InitHid ==
    /\ hidPc = "wait"
    /\ hidSlot = 0
    /\ hidData = << 0, 0, 0 >>
    /\ last_data = << 0, 0, 0 >>
    /\ hidOutcome = [k \in HidInstances |-> Outcome("skip", << 0, 0, 0 >>)]
    /\ hidLastSent = [k \in HidInstances |-> << >>]
    /\ tudSuspended = FALSE
    /\ cfgHid = 0

\* No controller is plugged in: every capture reads as zero.
InitPio ==
    /\ smData = [i \in PortIndex |-> 0]
    /\ trigResult = << >>

\* No heartbeat task has stopped or set its flag.
InitBeat ==
    /\ stopFlag = [c \in Cores |-> "none"]
    /\ stopPets = [c \in Cores |-> 0]
    /\ freshBeat = [c \in Cores |-> FALSE]

\* main() has created init_task only; none of its tasks exists yet.
InitMain ==
    /\ taskPc = [n \in InitTaskNames |-> "none"]
    /\ mwDelay = 0
    /\ retry = 0
    /\ killedBy = "none"

\* syslog: space_available_ = max_size, no record, no callback;
\* safe_syslog(): the semaphore is created and given once.
InitLog ==
    /\ logs_ = << >>
    /\ space_available_ = max_size
    /\ callback_ = FALSE
    /\ mutex_ = 1
    /\ logPc = [t \in LogTasks |-> "idle"]
    /\ logOp = [t \in LogTasks |-> "none"]
    /\ logArg = [t \in LogTasks |-> 0]
    /\ logRet = [t \in LogTasks |-> 0]
    /\ pushed = [size |-> 0, evicted |-> 0, stored |-> FALSE]

\* network_task is listening and about to call accept().
InitNet ==
    /\ netPc = "accept"
    /\ result = Unexpected(0)
    /\ request_result = Unexpected(0)
    /\ netLog = << "none", 0 >>
    /\ netConnections = 0

\* cdc_device cdc: connected_ = false; no call made.
InitCdc ==
    /\ connected_ = FALSE
    /\ hostCdc = FALSE
    /\ cdcPc = [t \in CdcTasks |-> "idle"]
    /\ cdcOp = [t \in CdcTasks |-> "none"]
    /\ cdcRet = [t \in CdcTasks |-> 0]
    /\ cdcStack = [t \in CdcTasks |-> FALSE]
    /\ errno = 0
    /\ connWriter = "initialiser"

Init ==
    /\ InitBeat
    /\ InitMain
    /\ InitLog
    /\ InitNet
    /\ InitCdc
    /\ InitWatchdog
    /\ InitUsb
    /\ InitDescriptor
    /\ InitUsbTask
    /\ InitHid
    /\ InitPio

\* ------------------------------------------------------------------------
\* Watchdog supervisor
\* ------------------------------------------------------------------------

\* initialize_watchdog_tasks(): creates the two heartbeat tasks and the
\* aggregator; all three are ready to run at once.
InitializeWatchdogTasks ==
    /\ ~hwReset
    /\ ~wdCreated
    /\ wdCreated' = TRUE
    /\ UNCHANGED << watchdog_cpu_status, cpuDelay, cpuStalled, missRun,
                    worstMiss, wdPc, wdIdx, wdDelay, wdStalled, hwArmed,
                    hwLeft, hwReset, pets, quietCycle,
                    usbVars, descVars,
                    cbVars, hidVars, pioVars, auxVars >>

CpuReady(c) ==
    ~hwReset /\ wdCreated /\ c \notin cpuStalled /\ cpuDelay[c] = 0

\* WatchdogCpuTask with a fault: the task sleeps for two thirds of the
\* aggregator's period.
WatchdogCpuTaskShortPeriod(c) ==
    /\ CpuReady(c)
    /\ watchdog_cpu_status' = [watchdog_cpu_status EXCEPT ![c] = TRUE]
    /\ cpuDelay' = [cpuDelay EXCEPT ![c] = (2 * AggregatorPeriod) \div 3]
    /\ missRun' = [missRun EXCEPT ![c] = 0]
    /\ quietCycle' = [quietCycle EXCEPT ![c] = FALSE]
    /\ freshBeat' = [freshBeat EXCEPT ![c] = TRUE]
    /\ UNCHANGED << wdCreated, cpuStalled, worstMiss, wdPc, wdIdx, wdDelay,
                    wdStalled, hwArmed, hwLeft, hwReset, pets,
                    usbVars, descVars,
                    cbVars, hidVars, pioVars, stopFlag, stopPets, killVars, logVars, netVars, cdcVars >>

\* One iteration of watchdog_cpu_task: status_ = true; vTaskDelay(50).
WatchdogCpuTask(c) ==
    /\ CpuReady(c)
    /\ watchdog_cpu_status' = [watchdog_cpu_status EXCEPT ![c] = TRUE]
    /\ cpuDelay' = [cpuDelay EXCEPT ![c] = HeartbeatPeriod]
    /\ missRun' = [missRun EXCEPT ![c] = 0]
    /\ quietCycle' = [quietCycle EXCEPT ![c] = FALSE]
    /\ freshBeat' = [freshBeat EXCEPT ![c] = TRUE]
    /\ UNCHANGED << wdCreated, cpuStalled, worstMiss, wdPc, wdIdx, wdDelay,
                    wdStalled, hwArmed, hwLeft, hwReset, pets,
                    usbVars, descVars,
                    cbVars, hidVars, pioVars, stopFlag, stopPets, killVars, logVars, netVars, cdcVars >>

\* The heartbeat task of core c is kept off its core for one whole period:
\* the flag is not set this period (a missed heartbeat).
CpuMiss(c) ==
    /\ CpuReady(c)
    /\ missRun[c] < MaxMissRun
    /\ cpuDelay' = [cpuDelay EXCEPT ![c] = HeartbeatPeriod]
    /\ missRun' = [missRun EXCEPT ![c] = @ + 1]
    /\ worstMiss' = IF missRun[c] + 1 > worstMiss THEN missRun[c] + 1
                                                  ELSE worstMiss
    /\ UNCHANGED << wdCreated, watchdog_cpu_status, cpuStalled, wdPc, wdIdx,
                    wdDelay, wdStalled, hwArmed, hwLeft, hwReset, pets,
                    quietCycle,
                    usbVars, descVars,
                    cbVars, hidVars, pioVars, auxVars >>

\* The heartbeat task of core c stops running forever (its core locks up).
CpuStall(c) ==
    /\ ~hwReset
    /\ wdCreated
    /\ c \notin cpuStalled
    /\ cpuStalled' = cpuStalled \cup {c}
    /\ cpuDelay' = [cpuDelay EXCEPT ![c] = 0]
    /\ missRun' = [missRun EXCEPT ![c] = 0]
    /\ stopFlag' = [stopFlag EXCEPT ![c] =
                         IF watchdog_cpu_status[c] THEN "set" ELSE "clear"]
    /\ UNCHANGED << wdCreated, watchdog_cpu_status,
                    worstMiss, wdPc, wdIdx, wdDelay, wdStalled, hwArmed,
                    hwLeft, hwReset, pets, quietCycle,
                    usbVars, descVars,
                    cbVars, hidVars, pioVars, stopPets, freshBeat, killVars, logVars, netVars, cdcVars >>

WdReady == ~hwReset /\ wdCreated /\ ~wdStalled /\ wdDelay = 0

\* watchdog_task, before its loop: watchdog_enable(200, true).
WatchdogEnable ==
    /\ WdReady
    /\ wdPc = "enable"
    /\ hwArmed' = TRUE
    /\ hwLeft' = WatchdogTimeout
    /\ wdPc' = "check"
    /\ wdIdx' = 0
    /\ UNCHANGED << wdCreated, watchdog_cpu_status, cpuDelay, cpuStalled,
                    missRun, worstMiss, wdDelay, wdStalled, hwReset, pets,
                    quietCycle,
                    usbVars, descVars,
                    cbVars, hidVars, pioVars, auxVars >>

\* WatchdogCheck with a fault: only the first flag is looked at.
WatchdogCheckFirstOnly ==
    /\ WdReady
    /\ wdPc = "check"
    /\ IF ~watchdog_cpu_status[0]
         THEN /\ wdDelay' = AggregatorPeriod
              /\ wdPc' = "check"
              /\ quietCycle' = [c \in Cores |-> TRUE]
         ELSE /\ wdDelay' = wdDelay
              /\ wdPc' = "update"
              /\ quietCycle' = quietCycle
    /\ wdIdx' = 0
    /\ freshBeat' = IF wdPc' = "update" THEN [c \in Cores |-> FALSE]
                                        ELSE freshBeat
    /\ UNCHANGED << wdCreated, watchdog_cpu_status, cpuDelay, cpuStalled,
                    missRun, worstMiss, wdStalled, hwArmed, hwLeft, hwReset,
                    pets, usbVars, descVars,
                    cbVars, hidVars, pioVars, stopFlag, stopPets, killVars, logVars, netVars, cdcVars >>

\* WatchdogCheck with a fault: the flags are not looked at, every cycle pets.
WatchdogCheckAlwaysTrue ==
    /\ WdReady
    /\ wdPc = "check"
    /\ wdPc' = "update"
    /\ wdIdx' = 0
    /\ freshBeat' = IF wdPc' = "update" THEN [c \in Cores |-> FALSE]
                                        ELSE freshBeat
    /\ UNCHANGED << wdCreated, watchdog_cpu_status, cpuDelay, cpuStalled,
                    missRun, worstMiss, wdDelay, wdStalled, hwArmed, hwLeft,
                    hwReset, pets, quietCycle, usbVars, descVars,
                    cbVars, hidVars, pioVars, stopFlag, stopPets, killVars, logVars, netVars, cdcVars >>

\* std::ranges::all_of(watchdog_cpu_status, value): one atomic load per
\* flag, in index order, stopping at the first flag that is clear.  When a
\* flag is clear the if-body is skipped and the task blocks in vTaskDelay(30).
WatchdogCheck ==
    /\ WdReady
    /\ wdPc = "check"
    /\ IF ~watchdog_cpu_status[wdIdx]
         THEN /\ wdDelay' = AggregatorPeriod
              /\ wdIdx' = 0
              /\ wdPc' = "check"
              /\ quietCycle' = [c \in Cores |-> TRUE]
         ELSE IF wdIdx + 1 < cpu_cores
           THEN /\ wdIdx' = wdIdx + 1
                /\ wdPc' = "check"
                /\ wdDelay' = wdDelay
                /\ quietCycle' = quietCycle
           ELSE /\ wdIdx' = 0
                /\ wdPc' = "update"
                /\ wdDelay' = wdDelay
                /\ quietCycle' = quietCycle
    /\ freshBeat' = IF wdPc' = "update" THEN [c \in Cores |-> FALSE]
                                        ELSE freshBeat
    /\ UNCHANGED << wdCreated, watchdog_cpu_status, cpuDelay, cpuStalled,
                    missRun, worstMiss, wdStalled, hwArmed, hwLeft, hwReset,
                    pets,
                    usbVars, descVars,
                    cbVars, hidVars, pioVars, stopFlag, stopPets, killVars, logVars, netVars, cdcVars >>

\* WatchdogUpdate with a fault: the hardware counter is not reloaded.
WatchdogUpdateNoReload ==
    /\ WdReady
    /\ wdPc = "update"
    /\ pets' = (pets + 1) % (MaxPets + 1)
    /\ wdPc' = "fill"
    /\ wdIdx' = 0
    /\ stopPets' = [c \in Cores |->
                        IF c \in cpuStalled THEN Min({stopPets[c] + 1, 2})
                                            ELSE stopPets[c]]
    /\ UNCHANGED << wdCreated, watchdog_cpu_status, cpuDelay, cpuStalled,
                    missRun, worstMiss, wdDelay, wdStalled, hwArmed, hwLeft,
                    hwReset, quietCycle, usbVars, descVars,
                    cbVars, hidVars, pioVars, stopFlag, freshBeat, killVars, logVars, netVars, cdcVars >>

\* watchdog_update(): reloads the hardware watchdog counter.
WatchdogUpdate ==
    /\ WdReady
    /\ wdPc = "update"
    /\ hwLeft' = WatchdogTimeout
    /\ pets' = (pets + 1) % (MaxPets + 1)
    /\ wdPc' = "fill"
    /\ wdIdx' = 0
    /\ stopPets' = [c \in Cores |->
                        IF c \in cpuStalled THEN Min({stopPets[c] + 1, 2})
                                            ELSE stopPets[c]]
    /\ UNCHANGED << wdCreated, watchdog_cpu_status, cpuDelay, cpuStalled,
                    missRun, worstMiss, wdDelay, wdStalled, hwArmed, hwReset,
                    quietCycle,
                    usbVars, descVars,
                    cbVars, hidVars, pioVars, stopFlag, freshBeat, killVars, logVars, netVars, cdcVars >>

\* WatchdogFill with a fault: only the first flag is cleared.
WatchdogFillFirstOnly ==
    /\ WdReady
    /\ wdPc = "fill"
    /\ watchdog_cpu_status' = [watchdog_cpu_status EXCEPT ![0] = FALSE]
    /\ wdIdx' = 0
    /\ wdPc' = "check"
    /\ wdDelay' = AggregatorPeriod
    /\ quietCycle' = [c \in Cores |-> TRUE]
    /\ UNCHANGED << wdCreated, cpuDelay, cpuStalled, missRun, worstMiss,
                    wdStalled, hwArmed, hwLeft, hwReset, pets,
                    usbVars, descVars,
                    cbVars, hidVars, pioVars, auxVars >>

\* std::ranges::fill(watchdog_cpu_status, 0): one atomic store per flag, in
\* index order; after the last one the task blocks in vTaskDelay(30).
WatchdogFill ==
    /\ WdReady
    /\ wdPc = "fill"
    /\ watchdog_cpu_status' = [watchdog_cpu_status EXCEPT ![wdIdx] = FALSE]
    /\ IF wdIdx + 1 < cpu_cores
         THEN /\ wdIdx' = wdIdx + 1
              /\ wdPc' = "fill"
              /\ wdDelay' = wdDelay
              /\ quietCycle' = quietCycle
         ELSE /\ wdIdx' = 0
              /\ wdPc' = "check"
              /\ wdDelay' = AggregatorPeriod
              /\ quietCycle' = [c \in Cores |-> TRUE]
    /\ UNCHANGED << wdCreated, cpuDelay, cpuStalled, missRun, worstMiss,
                    wdStalled, hwArmed, hwLeft, hwReset, pets,
                    usbVars, descVars,
                    cbVars, hidVars, pioVars, auxVars >>

\* The aggregator task stops running forever somewhere in its loop.
WdStall ==
    /\ ~hwReset
    /\ wdCreated
    /\ ~wdStalled
    /\ wdPc # "enable"
    /\ wdStalled' = TRUE
    /\ wdDelay' = 0
    /\ UNCHANGED << wdCreated, watchdog_cpu_status, cpuDelay, cpuStalled,
                    missRun, worstMiss, wdPc, wdIdx, hwArmed,
                    hwLeft, hwReset, pets, quietCycle,
                    usbVars, descVars,
                    cbVars, hidVars, pioVars, auxVars >>

\* ------------------------------------------------------------------------
\* USB topology manager
\* ------------------------------------------------------------------------

\* A call's entry: the locals of the call, and where it goes on.  The record
\* of a call (usbOp, usbArg, usbLoaded, usbActive, usbDisc, usbConn) is kept
\* after the call has returned, until the caller's next call.
EnterCall(t, op, controller, loaded, active, pc) ==
    /\ usbOp' = [usbOp EXCEPT ![t] = op]
    /\ usbArg' = [usbArg EXCEPT ![t] = controller]
    /\ usbLoaded' = [usbLoaded EXCEPT ![t] = loaded]
    /\ usbActive' = [usbActive EXCEPT ![t] = active]
    /\ usbDisc' = [usbDisc EXCEPT ![t] = 0]
    /\ usbConn' = [usbConn EXCEPT ![t] = 0]
    /\ usbPc' = [usbPc EXCEPT ![t] = pc]
    /\ UNCHANGED << active_controllers, tudConnected, usbDelay >>

\* UsbEnableController with a fault: the call returns early only when every
\* bit of the argument is already set, and adds the missing ones otherwise.
UsbEnableControllerAddsMissing(t, controller) ==
    /\ ~hwReset
    /\ usbPc[t] = "idle"
    /\ LET active == active_controllers
           masked == BitAnd(controller, 15)
       IN  IF BitAnd(masked, active) = masked
             THEN EnterCall(t, "enable", controller, active, active, "done")
             ELSE EnterCall(t, "enable", controller, active,
                            BitOr(active, masked), "store")
    /\ UNCHANGED << wdVars, descVars,
                    cbVars, hidVars, pioVars, auxVars >>

\* UsbEnableController with a fault: controller &= 0xF is left out.
UsbEnableControllerNoMask(t, controller) ==
    /\ ~hwReset
    /\ usbPc[t] = "idle"
    /\ LET active == active_controllers
       IN  IF BitAnd(controller, active) # 0
             THEN EnterCall(t, "enable", controller, active, active, "done")
             ELSE EnterCall(t, "enable", controller, active,
                            BitOr(active, controller), "store")
    /\ UNCHANGED << wdVars, descVars,
                    cbVars, hidVars, pioVars, auxVars >>

\* usb_enable_controller(controller), up to the store:
\*   uint8_t active = active_controllers;  controller &= 0xF;
\*   if (controller & active) return;      active |= controller;
UsbEnableController(t, controller) ==
    /\ ~hwReset
    /\ usbPc[t] = "idle"
    /\ LET active == active_controllers
           masked == BitAnd(controller, 15)
       IN  IF BitAnd(masked, active) # 0
             THEN EnterCall(t, "enable", controller, active, active, "done")
             ELSE EnterCall(t, "enable", controller, active,
                            BitOr(active, masked), "store")
    /\ UNCHANGED << wdVars, descVars,
                    cbVars, hidVars, pioVars, auxVars >>

\* usb_disable_controller(controller), up to the store:
\*   uint8_t active = active_controllers;  controller &= 0xF;
\*   if ((controller & active) == 0) return;  active &= ~controller;
UsbDisableController(t, controller) ==
    /\ ~hwReset
    /\ usbPc[t] = "idle"
    /\ LET active == active_controllers
           masked == BitAnd(controller, 15)
       IN  IF BitAnd(masked, active) = 0
             THEN EnterCall(t, "disable", controller, active, active, "done")
             ELSE EnterCall(t, "disable", controller, active,
                            BitAndNot(active, masked), "store")
    /\ UNCHANGED << wdVars, descVars,
                    cbVars, hidVars, pioVars, auxVars >>

\* UsbStore with a fault: the new value is written in two parts, bits 0 and
\* 2 first and bits 1 and 3 after.
UsbStoreTorn(t) ==
    /\ ~hwReset
    /\ usbPc[t] = "store"
    /\ LET half == BitOr(BitAnd(usbActive[t], 5),
                         BitAnd(active_controllers, 10))
       IN  IF active_controllers # half /\ half # usbActive[t]
             THEN /\ active_controllers' = half
                  /\ usbPc' = usbPc
             ELSE /\ active_controllers' = usbActive[t]
                  /\ usbPc' = [usbPc EXCEPT ![t] = "disconnect"]
    /\ UNCHANGED << tudConnected, usbOp, usbArg, usbLoaded, usbActive,
                    usbDelay, usbDisc, usbConn, wdVars, descVars,
                    cbVars, hidVars, pioVars, auxVars >>

\* active_controllers = active;
UsbStore(t) ==
    /\ ~hwReset
    /\ usbPc[t] = "store"
    /\ active_controllers' = usbActive[t]
    /\ usbPc' = [usbPc EXCEPT ![t] = "disconnect"]
    /\ UNCHANGED << tudConnected, usbOp, usbArg, usbLoaded, usbActive,
                    usbDelay, usbDisc, usbConn, wdVars, descVars,
                    cbVars, hidVars, pioVars, auxVars >>

\* TudDisconnect with a fault: the task blocks for a fifth of the heartbeat
\* period only.
TudDisconnectShortDelay(t) ==
    /\ ~hwReset
    /\ usbPc[t] = "disconnect"
    /\ tudConnected' = FALSE
    /\ usbDisc' = [usbDisc EXCEPT ![t] = @ + 1]
    /\ usbDelay' = [usbDelay EXCEPT ![t] = HeartbeatPeriod \div 5]
    /\ usbPc' = [usbPc EXCEPT ![t] = "settle"]
    /\ UNCHANGED << active_controllers, usbOp, usbArg, usbLoaded, usbActive,
                    usbConn, wdVars, descVars,
                    cbVars, hidVars, pioVars, auxVars >>

\* TudDisconnect with a fault: the delay is a wait that keeps every task off
\* the cores, not only the caller.
TudDisconnectBlocksAll(t) ==
    /\ ~hwReset
    /\ usbPc[t] = "disconnect"
    /\ tudConnected' = FALSE
    /\ usbDisc' = [usbDisc EXCEPT ![t] = @ + 1]
    /\ usbDelay' = [usbDelay EXCEPT ![t] = SettleDelay]
    /\ usbPc' = [usbPc EXCEPT ![t] = "settle"]
    /\ cpuDelay' = [c \in Cores |-> cpuDelay[c] + SettleDelay]
    /\ wdDelay' = wdDelay + SettleDelay
    /\ UNCHANGED << active_controllers, usbOp, usbArg, usbLoaded, usbActive,
                    usbConn, wdCreated, watchdog_cpu_status, cpuStalled,
                    missRun, worstMiss, wdPc, wdIdx, wdStalled, hwArmed,
                    hwLeft, hwReset, pets, quietCycle, descVars,
                    cbVars, hidVars, pioVars, auxVars >>

\* tud_disconnect(); then the task blocks in vTaskDelay(100).
TudDisconnect(t) ==
    /\ ~hwReset
    /\ usbPc[t] = "disconnect"
    /\ tudConnected' = FALSE
    /\ usbDisc' = [usbDisc EXCEPT ![t] = @ + 1]
    /\ usbDelay' = [usbDelay EXCEPT ![t] = SettleDelay]
    /\ usbPc' = [usbPc EXCEPT ![t] = "settle"]
    /\ UNCHANGED << active_controllers, usbOp, usbArg, usbLoaded, usbActive,
                    usbConn, wdVars, descVars,
                    cbVars, hidVars, pioVars, auxVars >>

\* TudConnect with a fault: tud_connect() is called without waiting for the
\* delay to elapse.
TudConnectNoWait(t) ==
    /\ ~hwReset
    /\ usbPc[t] = "settle"
    /\ tudConnected' = TRUE
    /\ usbConn' = [usbConn EXCEPT ![t] = @ + 1]
    /\ usbPc' = [usbPc EXCEPT ![t] = "done"]
    /\ UNCHANGED << active_controllers, usbOp, usbArg, usbLoaded, usbActive,
                    usbDelay, usbDisc, wdVars, descVars,
                    cbVars, hidVars, pioVars, auxVars >>

\* tud_connect(), once the delay has elapsed; the call is then over.
TudConnect(t) ==
    /\ ~hwReset
    /\ usbPc[t] = "settle"
    /\ usbDelay[t] = 0
    /\ tudConnected' = TRUE
    /\ usbConn' = [usbConn EXCEPT ![t] = @ + 1]
    /\ usbPc' = [usbPc EXCEPT ![t] = "done"]
    /\ UNCHANGED << active_controllers, usbOp, usbArg, usbLoaded, usbActive,
                    usbDelay, usbDisc, wdVars, descVars,
                    cbVars, hidVars, pioVars, auxVars >>

\* The call returns to its caller.
UsbReturn(t) ==
    /\ ~hwReset
    /\ usbPc[t] = "done"
    /\ usbPc' = [usbPc EXCEPT ![t] = "idle"]
    /\ UNCHANGED << active_controllers, tudConnected, usbOp, usbArg,
                    usbLoaded, usbActive, usbDelay, usbDisc, usbConn, wdVars,
                    descVars,
                    cbVars, hidVars, pioVars, auxVars >>

\* usb_get_active_controllers(): one atomic load of the mask, from any task.
UsbGetActiveControllers ==
    /\ ~hwReset
    /\ gotActive' = active_controllers
    /\ getSeq' = 1 - getSeq
    /\ UNCHANGED << cbPc, cbMask, cbI, cbCount, hostGot, wdVars, usbVars,
                    descVars, hidVars, pioVars, auxVars >>

\* ------------------------------------------------------------------------
\* Configuration descriptor
\* ------------------------------------------------------------------------

\* TUD_CONFIG_DESCRIPTOR
TudConfigDescriptor(config_num, itfcount, stridx, total_len, attribute, power_ma) ==
    << 9, 2 >> \o U16_TO_U8S_LE(total_len)
    \o << itfcount, config_num, stridx, BitOr(128, attribute),
          power_ma \div 2 >>

\* TUD_CDC_DESCRIPTOR
TudCdcDescriptor(itfnum, stridx, ep_notif, ep_notif_size, epout, epin, epsize) ==
    << 8, 11, itfnum, 2, 2, 2, 0, 0 >>
    \o << 9, 4, itfnum, 0, 1, 2, 2, 0, stridx >>
    \o << 5, 36, 0 >> \o U16_TO_U8S_LE(288)
    \o << 5, 36, 1, 0, (itfnum + 1) % 256 >>
    \o << 4, 36, 2, 2 >>
    \o << 5, 36, 6, itfnum, (itfnum + 1) % 256 >>
    \o << 7, 5, ep_notif, 3 >> \o U16_TO_U8S_LE(ep_notif_size) \o << 16 >>
    \o << 9, 4, (itfnum + 1) % 256, 0, 2, 10, 0, 0, 0 >>
    \o << 7, 5, epout, 2 >> \o U16_TO_U8S_LE(epsize) \o << 0 >>
    \o << 7, 5, epin, 2 >> \o U16_TO_U8S_LE(epsize) \o << 0 >>

\* TUD_HID_DESCRIPTOR
TudHidDescriptor(itfnum, stridx, boot_protocol, report_desc_len, epin, epsize, ep_interval) ==
    << 9, 4, itfnum, 0, 1, 3, IF boot_protocol # 0 THEN 1 ELSE 0,
       boot_protocol, stridx >>
    \o << 9, 33 >> \o U16_TO_U8S_LE(273) \o << 0, 1, 34 >>
    \o U16_TO_U8S_LE(report_desc_len)
    \o << 7, 5, epin, 3 >> \o U16_TO_U8S_LE(epsize) \o << ep_interval >>

\* sizeof(desc_hid_report): SNES_HID_REPORT_DESC_GAMEPAD() is 19 two-byte
\* items and the one-byte HID_COLLECTION_END
DescHidReportSize == 19 * 2 + 1

\* config_total_length with a fault: the CDC block is left out of the sum.
config_total_length_NoCdc(hid) ==
    TUD_CONFIG_DESC_LEN + (hid * TUD_HID_DESC_LEN)

\* config_total_length(hid)
config_total_length(hid) ==
    TUD_CONFIG_DESC_LEN + (hid * TUD_HID_DESC_LEN) + TUD_CDC_DESC_LEN

\* HidBlocks with a fault: the interface number and the endpoint address are
\* offset by the controller index i, not by count.
RECURSIVE HidBlocksRawIndex(_, _, _)
HidBlocksRawIndex(controller_bitmask, i, count) ==
    IF i >= 4 THEN << >>
    ELSE IF Bit(controller_bitmask, i) = 0
      THEN HidBlocksRawIndex(controller_bitmask, i + 1, count)
      ELSE TudHidDescriptor((ITF_NUM_HID_BASE + i) % 256,
                            (5 + i) % 256,
                            0,
                            DescHidReportSize,
                            BitOr(128, EPNUM_HID_BASE + i) % 256,
                            CFG_TUD_HID_EP_BUFSIZE,
                            10)
           \o HidBlocksRawIndex(controller_bitmask, i + 1, count + 1)

\* The loop of update_configuration from controller index i on, count HID
\* interfaces being configured already: one HID block is appended for every
\* enabled controller.
RECURSIVE HidBlocks(_, _, _)
HidBlocks(controller_bitmask, i, count) ==
    IF i >= 4 THEN << >>
    ELSE IF Bit(controller_bitmask, i) = 0
      THEN HidBlocks(controller_bitmask, i + 1, count)
      ELSE TudHidDescriptor((ITF_NUM_HID_BASE + count) % 256,
                            (5 + i) % 256,
                            0,
                            DescHidReportSize,
                            BitOr(128, EPNUM_HID_BASE + count) % 256,
                            CFG_TUD_HID_EP_BUFSIZE,
                            10)
           \o HidBlocks(controller_bitmask, i + 1, count + 1)

\* update_configuration(controller_bitmask): the value desc_configuration
\* holds when it returns.
UpdateConfiguration(controller_bitmask) ==
    LET clamped == BitAnd(controller_bitmask, Pow2(CFG_TUD_HID) - 1)
        number_of_controllers == PopCount(clamped)
        total_interfaces == (2 + number_of_controllers) % 256
    IN  TudConfigDescriptor(1, total_interfaces, 0,
                            config_total_length(number_of_controllers),
                            0, 500)
        \o TudCdcDescriptor(ITF_NUM_CDC, 4, EPNUM_CDC_NOTIF, 8,
                            EPNUM_CDC_OUT, EPNUM_CDC_IN, 64)
        \o HidBlocks(clamped, 0, 0)

\* tud_descriptor_configuration_cb(index): the host asks for the
\* configuration descriptor; it is rebuilt from the mask as it is now.
TudDescriptorConfigurationCb ==
    /\ ~hwReset
    /\ desc_configuration' = UpdateConfiguration(active_controllers)
    /\ descMask' = active_controllers
    /\ UNCHANGED << wdVars, usbVars, cbVars, hidVars, pioVars, auxVars >>

\* ------------------------------------------------------------------------
\* The descriptor request as the USB task runs it, statement by statement
\* ------------------------------------------------------------------------

\* tusb_config.h: the size of a control-endpoint packet
CFG_TUD_ENDPOINT0_SIZE == 64

\* values the polling task passes while descriptor requests are served
DescArgs == {1, 2, 12}

\* GetDescriptorRequest with a fault: once a descriptor has been built, the
\* mask it was built for is used again.
GetDescriptorRequestCached ==
    /\ ~hwReset
    /\ cbPc \in {"idle", "xfer"}
    /\ cbMask' = IF desc_configuration # << >> THEN descMask
                 ELSE BitAnd(active_controllers, Pow2(CFG_TUD_HID) - 1)
    /\ cbPc' = "assign"
    /\ hostGot' = << >>
    /\ UNCHANGED << cbI, cbCount, gotActive, getSeq, wdVars, usbVars,
                    descVars, hidVars, pioVars, auxVars >>

\* A GET CONFIGURATION DESCRIPTOR request reaches the USB task (a new
\* request ends the transfer of the previous one):
\* tud_descriptor_configuration_cb loads active_controllers once and passes
\* the value to update_configuration, which clamps its copy.
GetDescriptorRequest ==
    /\ ~hwReset
    /\ cbPc \in {"idle", "xfer"}
    /\ cbMask' = BitAnd(active_controllers, Pow2(CFG_TUD_HID) - 1)
    /\ cbPc' = "assign"
    /\ hostGot' = << >>
    /\ UNCHANGED << cbI, cbCount, gotActive, getSeq, wdVars, usbVars,
                    descVars, hidVars, pioVars, auxVars >>

\* desc_configuration = std::vector<uint8_t> { header, console block };
UpdateConfigurationAssign ==
    /\ ~hwReset
    /\ cbPc = "assign"
    /\ LET number_of_controllers == PopCount(cbMask)
           total_interfaces == (2 + number_of_controllers) % 256
       IN  desc_configuration' =
               TudConfigDescriptor(1, total_interfaces, 0,
                                   config_total_length(number_of_controllers),
                                   0, 500)
               \o TudCdcDescriptor(ITF_NUM_CDC, 4, EPNUM_CDC_NOTIF, 8,
                                   EPNUM_CDC_OUT, EPNUM_CDC_IN, 64)
    /\ descMask' = cbMask
    /\ cbI' = 0
    /\ cbCount' = 0
    /\ cbPc' = "loop"
    /\ UNCHANGED << cbMask, hostGot, gotActive, getSeq, wdVars, usbVars,
                    hidVars, pioVars, auxVars >>

\* UpdateConfigurationLoop with a fault: the loop tests the shared mask, not
\* its own copy.
UpdateConfigurationLoopReadsShared ==
    /\ ~hwReset
    /\ cbPc = "loop"
    /\ IF cbI >= 4
         THEN /\ cbPc' = "xfer"
              /\ UNCHANGED << cbI, cbCount, desc_configuration >>
         ELSE /\ cbPc' = "loop"
              /\ cbI' = cbI + 1
              /\ IF Bit(active_controllers, cbI) = 0
                   THEN UNCHANGED << cbCount, desc_configuration >>
                   ELSE /\ cbCount' = cbCount + 1
                        /\ desc_configuration' = desc_configuration \o
                             TudHidDescriptor(
                                 (ITF_NUM_HID_BASE + cbCount) % 256,
                                 (5 + cbI) % 256, 0, DescHidReportSize,
                                 BitOr(128, EPNUM_HID_BASE + cbCount) % 256,
                                 CFG_TUD_HID_EP_BUFSIZE, 10)
    /\ UNCHANGED << descMask, cbMask, hostGot, gotActive, getSeq, wdVars,
                    usbVars, hidVars, pioVars, auxVars >>

\* One turn of the loop of update_configuration: a controller that is not
\* enabled is skipped, the HID block of an enabled one is inserted at the
\* end of desc_configuration.  After the last turn update_configuration
\* returns and the callback hands desc_configuration.data() to the stack.
UpdateConfigurationLoop ==
    /\ ~hwReset
    /\ cbPc = "loop"
    /\ IF cbI >= 4
         THEN /\ cbPc' = "xfer"
              /\ UNCHANGED << cbI, cbCount, desc_configuration >>
         ELSE /\ cbPc' = "loop"
              /\ cbI' = cbI + 1
              /\ IF Bit(cbMask, cbI) = 0
                   THEN UNCHANGED << cbCount, desc_configuration >>
                   ELSE /\ cbCount' = cbCount + 1
                        /\ desc_configuration' = desc_configuration \o
                             TudHidDescriptor(
                                 (ITF_NUM_HID_BASE + cbCount) % 256,
                                 (5 + cbI) % 256, 0, DescHidReportSize,
                                 BitOr(128, EPNUM_HID_BASE + cbCount) % 256,
                                 CFG_TUD_HID_EP_BUFSIZE, 10)
    /\ UNCHANGED << descMask, cbMask, hostGot, gotActive, getSeq, wdVars,
                    usbVars, hidVars, pioVars, auxVars >>

\* The stack sends the next packet of the descriptor the callback returned:
\* it reads the buffer up to the total length the descriptor declares.
HostRead ==
    /\ ~hwReset
    /\ cbPc = "xfer"
    /\ LET total == desc_configuration[3] + 256 * desc_configuration[4]
           upto == Min({Len(hostGot) + CFG_TUD_ENDPOINT0_SIZE, total,
                        Len(desc_configuration)})
       IN  /\ hostGot' = hostGot \o
                   SubSeq(desc_configuration, Len(hostGot) + 1, upto)
           /\ cbPc' = IF upto >= total THEN "idle" ELSE "xfer"
    /\ UNCHANGED << cbMask, cbI, cbCount, gotActive, getSeq, wdVars,
                    usbVars, descVars, hidVars, pioVars, auxVars >>

\* ------------------------------------------------------------------------
\* hid_task and the USB stack it talks to
\* ------------------------------------------------------------------------

\* the value passed to enable/disable while hid_task runs: bits 0 and 1, the
\* ports of the two HID instances hid_task handles
HidArgs == {3}

\* The host sets the configuration it has fetched: the stack opens the HID
\* interfaces the descriptor declares.
HostSetConfiguration ==
    /\ ~hwReset
    /\ tudConnected
    /\ desc_configuration # << >>
    /\ cfgHid' = desc_configuration[5] - 2
    /\ cfgHid' # cfgHid
    /\ UNCHANGED << hidPc, hidSlot, hidData, last_data, hidOutcome,
                    tudSuspended, wdVars, usbVars, descVars, cbVars, pioVars, hidLastSent, auxVars >>

\* A bus reset (the host resets the port after a reconnect) or an unplug:
\* the stack is no longer configured.
HostBusReset ==
    /\ ~hwReset
    /\ cfgHid > 0
    /\ cfgHid' = 0
    /\ tudSuspended' = FALSE
    /\ UNCHANGED << hidPc, hidSlot, hidData, last_data, hidOutcome, wdVars,
                    usbVars, descVars, cbVars, pioVars, hidLastSent, auxVars >>

\* The host suspends or resumes the bus.
HostSuspendResume ==
    /\ ~hwReset
    /\ cfgHid > 0
    /\ tudSuspended' = ~tudSuspended
    /\ UNCHANGED << hidPc, hidSlot, hidData, last_data, hidOutcome, cfgHid,
                    wdVars, usbVars, descVars, cbVars, pioVars, hidLastSent, auxVars >>

\* data.x || data.y || data.buttons
NonNeutral(data) == data[1] # 0 \/ data[2] # 0 \/ data[3] # 0

\* hid_task leaves the block of one HID instance, whose local data goes out
\* of scope: it goes on to the block of instance 1, or to vTaskDelayUntil.
HidGoOn(did) ==
    /\ hidOutcome' = [hidOutcome EXCEPT ![hidSlot] = Outcome(did, hidData)]
    /\ hidData' = << 0, 0, 0 >>
    /\ IF hidSlot = 0
         THEN hidPc' = "ready" /\ hidSlot' = 1
         ELSE hidPc' = "wait" /\ hidSlot' = 0

\* vTaskDelayUntil(&last, pdMS_TO_TICKS(10)) returns: a polling cycle starts.
HidWake ==
    /\ ~hwReset
    /\ hidPc = "wait"
    /\ hidPc' = "ready"
    /\ hidSlot' = 0
    /\ UNCHANGED << hidData, last_data, hidOutcome, tudSuspended, cfgHid,
                    wdVars, usbVars, descVars, cbVars, pioVars, hidLastSent, auxVars >>

\* if (tud_hid_n_ready(n)) { controller_state data = {random}; ...
\* The stack reports an instance ready only if the configuration the host
\* has set holds it and the bus is not suspended; it may report it not
\* ready at any time (the endpoint is busy).
HidReady ==
    /\ ~hwReset
    /\ hidPc = "ready"
    /\ \/ /\ hidSlot < cfgHid
          /\ ~tudSuspended
          /\ \E data \in HidStates : hidData' = data
          /\ hidPc' = "suspended"
          /\ UNCHANGED << hidSlot, hidOutcome >>
       \/ HidGoOn("skip")
    /\ UNCHANGED << last_data, tudSuspended, cfgHid, wdVars, usbVars,
                    descVars, cbVars, pioVars, hidLastSent, auxVars >>

\* HidSuspended with a fault: the report branch is not an else branch, a
\* changed state is reported after the wakeup as well.
HidSuspendedThenReport ==
    /\ ~hwReset
    /\ hidPc = "suspended"
    /\ IF last_data # hidData
         THEN /\ hidPc' = "report"
                     /\ UNCHANGED << hidSlot, hidData, hidOutcome >>
         ELSE IF tudSuspended /\ NonNeutral(hidData)
                THEN HidGoOn("wakeup")
                ELSE HidGoOn("same")
    /\ UNCHANGED << last_data, tudSuspended, cfgHid, wdVars,
                    usbVars, descVars, cbVars, pioVars, hidLastSent, auxVars >>

\* if (tud_suspended() && (data.x || data.y || data.buttons))
\*     tud_remote_wakeup();
\* else if (last_data != data) ...
HidSuspended ==
    /\ ~hwReset
    /\ hidPc = "suspended"
    /\ IF tudSuspended /\ NonNeutral(hidData)
         THEN HidGoOn("wakeup")
         ELSE IF last_data # hidData
                THEN /\ hidPc' = "report"
                     /\ UNCHANGED << hidSlot, hidData, hidOutcome >>
                ELSE HidGoOn("same")
    /\ UNCHANGED << last_data, tudSuspended, cfgHid, wdVars,
                    usbVars, descVars, cbVars, pioVars, hidLastSent, auxVars >>

\* tud_hid_n_report(n, 0, &buffer, sizeof(buffer)); last_data = data;
HidReport ==
    /\ ~hwReset
    /\ hidPc = "report"
    /\ last_data' = hidData
    /\ hidLastSent' = [hidLastSent EXCEPT ![hidSlot] = hidData]
    /\ HidGoOn("report")
    /\ UNCHANGED << tudSuspended, cfgHid, wdVars, usbVars,
                    descVars, cbVars, pioVars, auxVars >>

\* ------------------------------------------------------------------------
\* pio_controllers: the captured words and their decoding
\* ------------------------------------------------------------------------

\* a capture with the four trailing strobe bits 24, 26, 28 and 30 set, as a
\* plugged-in controller with nothing pressed yields it
ConnectedWord == Pow2(24) + Pow2(26) + Pow2(28) + Pow2(30)

\* the words a capture may yield in the model
CaptureWords == {0, ConnectedWord}

\* the ports whose controller is plugged and unplugged in the model
PluggedPorts == {0}

\* .connected = ((data >> 24) & 1) && ((data >> 26) & 1) && ((data >> 28) & 1)
\*              && ((data >> 30) & 1)
TriggerConnected(data) ==
    /\ Bit(data, 24) = 1
    /\ Bit(data, 26) = 1
    /\ Bit(data, 28) = 1
    /\ Bit(data, 30) = 1

\* .x = static_cast<int8_t>((data & (1 << 12)) ? -127 :
\*                          (data & (1 << 14)) ? 127 : 0)
TriggerX(data) ==
    IF Bit(data, 12) = 1 THEN -127 ELSE IF Bit(data, 14) = 1 THEN 127 ELSE 0

\* .y = static_cast<int8_t>((data & (1 << 8)) ? 127 :
\*                          (data & (1 << 10)) ? -127 : 0)
TriggerY(data) ==
    IF Bit(data, 8) = 1 THEN 127 ELSE IF Bit(data, 10) = 1 THEN -127 ELSE 0

\* .buttons = ((data >> 0) & 1) | ((data >> 2) & 1) << 1 | ... |
\*            ((data >> 22) & 1) << 7
TriggerButtons(data) ==
    Bit(data, 0) + 2 * Bit(data, 2) + 4 * Bit(data, 3) + 8 * Bit(data, 4)
    + 16 * Bit(data, 16) + 32 * Bit(data, 18) + 64 * Bit(data, 20)
    + 128 * Bit(data, 22)

\* Trigger with a fault: the two directions of an axis are added up as
\* magnitudes of 127 and 128 instead of being selected.
TriggerAxisSummed(data) ==
    [ connected |-> TriggerConnected(data),
      x |-> 127 * Bit(data, 14) - 128 * Bit(data, 12),
      y |-> 127 * Bit(data, 8) - 128 * Bit(data, 10),
      buttons |-> TriggerButtons(data) ]

\* Trigger with a fault: one strobe is enough for connected.
TriggerAnyStrobe(data) ==
    [ connected |-> \/ Bit(data, 24) = 1
                    \/ Bit(data, 26) = 1
                    \/ Bit(data, 28) = 1
                    \/ Bit(data, 30) = 1,
      x |-> TriggerX(data),
      y |-> TriggerY(data),
      buttons |-> TriggerButtons(data) ]

\* Trigger with a fault: the strobe at bit 24 is not looked at.
TriggerThreeStrobes(data) ==
    [ connected |-> Bit(data, 26) = 1 /\ Bit(data, 28) = 1 /\ Bit(data, 30) = 1,
      x |-> TriggerX(data),
      y |-> TriggerY(data),
      buttons |-> TriggerButtons(data) ]

\* Trigger with a fault: the buttons are taken from the bit positions
\* 0, 2, 4, 6, 16, 18, 20, 22.
TriggerButtonsEvenBits(data) ==
    [ connected |-> TriggerConnected(data),
      x |-> TriggerX(data),
      y |-> TriggerY(data),
      buttons |-> Bit(data, 0) + 2 * Bit(data, 2) + 4 * Bit(data, 4)
                  + 8 * Bit(data, 6) + 16 * Bit(data, 16)
                  + 32 * Bit(data, 18) + 64 * Bit(data, 20)
                  + 128 * Bit(data, 22) ]

\* result[i] of pio_controllers::trigger() for the captured word data
Trigger(data) ==
    [ connected |-> TriggerConnected(data),
      x |-> TriggerX(data),
      y |-> TriggerY(data),
      buttons |-> TriggerButtons(data) ]

\* pio_controllers::trigger(): starts a capture, waits a tick and decodes the
\* word of every port.
PioTrigger ==
    /\ ~hwReset
    /\ trigResult' = [i \in PortIndex |-> Trigger(smData[i])]
    /\ UNCHANGED << smData, wdVars, usbVars, descVars, cbVars, hidVars, auxVars >>

\* the bit positions of a captured word that the model sets: the sixteen
\* that trigger() reads, and two that it does not read
DecodeBits == {0, 2, 3, 4, 8, 10, 12, 14, 16, 18, 20, 22, 24, 26, 28, 30}
              \cup {1, 29}

RECURSIVE WordOf(_)
WordOf(S) ==
    IF S = {} THEN 0
    ELSE LET b == CHOOSE x \in S : TRUE IN Pow2(b) + WordOf(S \ {b})

\* the captured words the decoder is run on
DecodeWords ==
    {WordOf(S) : S \in {T \in SUBSET DecodeBits : Cardinality(T) <= MaxBitsSet}}

\* The device with some word in the capture of every port.
InitDecode ==
    /\ InitBeat
    /\ InitMain
    /\ InitLog
    /\ InitNet
    /\ InitCdc
    /\ InitWatchdog
    /\ InitUsb
    /\ InitDescriptor
    /\ InitUsbTask
    /\ InitHid
    /\ \E data \in DecodeWords : smData = [i \in PortIndex |-> data]
    /\ trigResult = << >>

\* A controller is plugged into or pulled from a port: the port's captures
\* yield another word from now on.
ControllerPlug(i, data) ==
    /\ ~hwReset
    /\ smData[i] # data
    /\ smData' = [smData EXCEPT ![i] = data]
    /\ UNCHANGED << trigResult, wdVars, usbVars, descVars, cbVars, hidVars, auxVars >>

\* ------------------------------------------------------------------------
\* main.cpp: the task "watchdog" and the two ways of deleting it
\* ------------------------------------------------------------------------

\* Task "watchdog" has priority tskIDLE_PRIORITY+2 and the others
\* tskIDLE_PRIORITY+1, all on one core: while it is ready the others wait.
MainWatchdogReady ==
    /\ ~hwReset
    /\ taskPc["watchdog"] \in {"enable", "update"}
    /\ mwDelay = 0

\* init_task, first xTaskCreate: the task "watchdog" is created and, having
\* the higher priority, runs before init_task goes on.
InitTaskCreateWatchdog ==
    /\ ~hwReset
    /\ taskPc["watchdog"] = "none"
    /\ taskPc' = [taskPc EXCEPT !["watchdog"] = "enable"]
    /\ UNCHANGED << mwDelay, retry, killedBy, wdVars, usbVars, descVars,
                    cbVars, hidVars, pioVars, beatVars, logVars, netVars, cdcVars >>

\* init_task, the further xTaskCreate calls: "prb_cli" and "wifi".
InitTaskCreateOthers ==
    /\ ~hwReset
    /\ ~MainWatchdogReady
    /\ taskPc["watchdog"] # "none"
    /\ taskPc["prb_cli"] = "none"
    /\ taskPc["wifi"] = "none"
    /\ taskPc' = [taskPc EXCEPT !["prb_cli"] = "read", !["wifi"] = "attempt"]
    /\ UNCHANGED << mwDelay, retry, killedBy, wdVars, usbVars, descVars,
                    cbVars, hidVars, pioVars, beatVars, logVars, netVars, cdcVars >>

\* watchdog_task of main.cpp, before its loop: watchdog_enable(200, true).
MainWatchdogEnable ==
    /\ MainWatchdogReady
    /\ taskPc["watchdog"] = "enable"
    /\ hwArmed' = TRUE
    /\ hwLeft' = WatchdogTimeout
    /\ taskPc' = [taskPc EXCEPT !["watchdog"] = "update"]
    /\ UNCHANGED << wdCreated, watchdog_cpu_status, cpuDelay, cpuStalled,
                    missRun, worstMiss, wdPc, wdIdx, wdDelay, wdStalled,
                    hwReset, pets, quietCycle, mwDelay, retry, killedBy,
                    usbVars, descVars, cbVars, hidVars, pioVars, beatVars, logVars, netVars, cdcVars >>

\* One iteration of watchdog_task of main.cpp: watchdog_update();
\* vTaskDelay(50).
MainWatchdogUpdate ==
    /\ MainWatchdogReady
    /\ taskPc["watchdog"] = "update"
    /\ hwLeft' = WatchdogTimeout
    /\ pets' = (pets + 1) % (MaxPets + 1)
    /\ mwDelay' = MainWatchdogPeriod
    /\ UNCHANGED << wdCreated, watchdog_cpu_status, cpuDelay, cpuStalled,
                    missRun, worstMiss, wdPc, wdIdx, wdDelay, wdStalled,
                    hwArmed, hwReset, quietCycle, taskPc, retry, killedBy,
                    usbVars, descVars, cbVars, hidVars, pioVars, beatVars, logVars, netVars, cdcVars >>

\* xTaskGetHandle(name): the handle of the existing task of that name, NULL
\* when there is none.
XTaskGetHandle(name) ==
    IF name \in InitTaskNames /\ taskPc[name] \notin {"none", "deleted"}
      THEN name
      ELSE "NULL"

\* KillWatchdogTask with a fault: the task is looked up under the name the
\* aggregator of watchdog.cpp is created with.
KillWatchdogTaskOtherName(k) ==
    LET handle == XTaskGetHandle("sctu_watchdog_core")
    IN  IF handle = "NULL"
          THEN /\ taskPc' = [taskPc EXCEPT ![k] = "deleted"]
               /\ killedBy' = killedBy
          ELSE /\ taskPc' = [taskPc EXCEPT ![handle] = "deleted", ![k] = "spin"]
               /\ killedBy' = k

\* TaskHandle_t handle = xTaskGetHandle("watchdog"); vTaskDelete(handle);
\* for(;;);  run by task k.  vTaskDelete(NULL) deletes the calling task.
KillWatchdogTask(k) ==
    LET handle == XTaskGetHandle("watchdog")
    IN  IF handle = "NULL"
          THEN /\ taskPc' = [taskPc EXCEPT ![k] = "deleted"]
               /\ killedBy' = killedBy
          ELSE /\ taskPc' = [taskPc EXCEPT ![handle] = "deleted", ![k] = "spin"]
               /\ killedBy' = k

\* init_wifi, one pass of the loop in which cyw43_arch_init_with_country or
\* cyw43_arch_wifi_connect_timeout_ms fails: continue, ++retry.
InitWifiFails ==
    /\ ~hwReset
    /\ ~MainWatchdogReady
    /\ taskPc["wifi"] = "attempt"
    /\ retry < WifiAttempts
    /\ retry' = retry + 1
    /\ UNCHANGED << taskPc, mwDelay, killedBy, wdVars, usbVars, descVars,
                    cbVars, hidVars, pioVars, beatVars, logVars, netVars, cdcVars >>

\* init_wifi, a pass of the loop that connects: break; retry is below 10,
\* the network task is created and the task deletes itself.
InitWifiConnects ==
    /\ ~hwReset
    /\ ~MainWatchdogReady
    /\ taskPc["wifi"] = "attempt"
    /\ retry < WifiAttempts
    /\ taskPc' = [taskPc EXCEPT !["wifi"] = "deleted"]
    /\ UNCHANGED << mwDelay, retry, killedBy, wdVars, usbVars, descVars,
                    cbVars, hidVars, pioVars, beatVars, logVars, netVars, cdcVars >>

\* init_wifi after the loop: if (retry == 10) the task "watchdog" is deleted.
InitWifiGivesUp ==
    /\ ~hwReset
    /\ ~MainWatchdogReady
    /\ taskPc["wifi"] = "attempt"
    /\ retry = WifiAttempts
    /\ KillWatchdogTask("wifi")
    /\ UNCHANGED << mwDelay, retry, wdVars, usbVars, descVars,
                    cbVars, hidVars, pioVars, beatVars, logVars, netVars, cdcVars >>

\* cli_task run(): the line read starts with 'k'.
CliKill ==
    /\ ~hwReset
    /\ ~MainWatchdogReady
    /\ taskPc["prb_cli"] = "read"
    /\ KillWatchdogTask("prb_cli")
    /\ UNCHANGED << mwDelay, retry, wdVars, usbVars, descVars,
                    cbVars, hidVars, pioVars, beatVars, logVars, netVars, cdcVars >>

\* ------------------------------------------------------------------------
\* syslog and safe_syslog
\* ------------------------------------------------------------------------

RECURSIVE Evict(_, _, _)
\* Evict with a fault: a message that does not fit empties the log.
EvictAll(logs, space, n) ==
    IF n > space THEN << << >>, max_size >> ELSE << logs, space >>

\* syslog::push, the loop:
\*   while (logs_.size() && str.size() > space_available_)
\*   { space_available_ += logs_.front().record.size(); logs_.pop_front(); }
Evict(logs, space, n) ==
    IF Len(logs) > 0 /\ n > space
      THEN Evict(Tail(logs), space + Head(logs), n)
      ELSE << logs, space >>

\* syslog::push up to the callback: the records and space_available_ after
\* pushing a message of size n.
Push(logs, space, n) ==
    IF n > max_size
      THEN << logs, space >>
      ELSE LET e == Evict(logs, space, n)
           IN  << Append(e[1], n), e[2] - n >>

\* A task calls a safe_syslog operation: it is about to take the semaphore.
SafeSyslogCall(t, op, n) ==
    /\ logPc[t] = "idle"
    /\ op = "push" \/ n = 0
    /\ (op = "push" /\ n = 0) => Len(logs_) < MaxRecords
    /\ op = "register" => ~callback_
    /\ logPc' = [logPc EXCEPT ![t] = "take"]
    /\ logOp' = [logOp EXCEPT ![t] = op]
    /\ logArg' = [logArg EXCEPT ![t] = n]
    /\ UNCHANGED << logs_, space_available_, callback_, mutex_, logRet,
                    wdVars, usbVars, descVars, cbVars, hidVars, pioVars,
                    beatVars, killVars, pushed, netVars, cdcVars >>

\* XSemaphoreTake with a fault: the call returns without the semaphore.
XSemaphoreTakeNoWait(t) ==
    /\ logPc[t] = "take"
    /\ mutex_' = 0
    /\ logPc' = [logPc EXCEPT ![t] = "body"]
    /\ UNCHANGED << logs_, space_available_, callback_, logOp, logArg, logRet,
                    wdVars, usbVars, descVars, cbVars, hidVars, pioVars,
                    beatVars, killVars, pushed, netVars, cdcVars >>

\* xSemaphoreTake(mutex_, portMAX_DELAY): blocks while the count is 0.
XSemaphoreTake(t) ==
    /\ logPc[t] = "take"
    /\ mutex_ = 1
    /\ mutex_' = 0
    /\ logPc' = [logPc EXCEPT ![t] = "body"]
    /\ UNCHANGED << logs_, space_available_, callback_, logOp, logArg, logRet,
                    wdVars, usbVars, descVars, cbVars, hidVars, pioVars,
                    beatVars, killVars, pushed, netVars, cdcVars >>

\* log_.push(str), up to the callback; the callback is called when one is
\* registered and the message was not dropped.
SyslogPush(t) ==
    /\ logPc[t] = "body"
    /\ logOp[t] = "push"
    /\ LET r == Push(logs_, space_available_, logArg[t])
       IN  /\ logs_' = r[1]
           /\ space_available_' = r[2]
    /\ logPc' = [logPc EXCEPT ![t] =
                     IF callback_ /\ logArg[t] <= max_size THEN "callback"
                                                          ELSE "give"]
    /\ pushed' = [size |-> logArg[t],
                  evicted |-> IF logArg[t] <= max_size
                                THEN Len(logs_) + 1 - Len(logs_') ELSE 0,
                  stored |-> logArg[t] <= max_size]
    /\ UNCHANGED << callback_, mutex_, logOp, logArg, logRet,
                    wdVars, usbVars, descVars, cbVars, hidVars, pioVars,
                    beatVars, killVars, netVars, cdcVars >>

\* callback_(str): print_callback, a printf that returns.
PrintCallback(t) ==
    /\ logPc[t] = "callback"
    /\ logPc' = [logPc EXCEPT ![t] = "give"]
    /\ UNCHANGED << logs_, space_available_, callback_, mutex_, logOp, logArg,
                    logRet,
                    wdVars, usbVars, descVars, cbVars, hidVars, pioVars,
                    beatVars, killVars, pushed, netVars, cdcVars >>

\* size_t result = log_.size();
SyslogSize(t) ==
    /\ logPc[t] = "body"
    /\ logOp[t] = "size"
    /\ logRet' = [logRet EXCEPT ![t] = Len(logs_)]
    /\ logPc' = [logPc EXCEPT ![t] = "give"]
    /\ UNCHANGED << logs_, space_available_, callback_, mutex_, logOp, logArg,
                    wdVars, usbVars, descVars, cbVars, hidVars, pioVars,
                    beatVars, killVars, pushed, netVars, cdcVars >>

\* log_.register_push_callback(...): callback_ = wrapper.
RegisterPushCallback(t) ==
    /\ logPc[t] = "body"
    /\ logOp[t] = "register"
    /\ callback_' = TRUE
    /\ logPc' = [logPc EXCEPT ![t] = "give"]
    /\ UNCHANGED << logs_, space_available_, mutex_, logOp, logArg, logRet,
                    wdVars, usbVars, descVars, cbVars, hidVars, pioVars,
                    beatVars, killVars, pushed, netVars, cdcVars >>

\* xSemaphoreGive(mutex_); the operation returns.
XSemaphoreGive(t) ==
    /\ logPc[t] = "give"
    /\ mutex_' = 1
    /\ logPc' = [logPc EXCEPT ![t] = "idle"]
    /\ logOp' = [logOp EXCEPT ![t] = "none"]
    /\ logArg' = [logArg EXCEPT ![t] = 0]
    /\ UNCHANGED << logs_, space_available_, callback_, logRet,
                    wdVars, usbVars, descVars, cbVars, hidVars, pioVars,
                    beatVars, killVars, pushed, netVars, cdcVars >>

\* ------------------------------------------------------------------------
\* network_task
\* ------------------------------------------------------------------------

restOfNet == << wdVars, usbVars, descVars, cbVars, hidVars, pioVars, beatVars,
                killVars, logVars, cdcVars >>

\* server::accept and the lines after it:
\*   auto result = server_.accept();
\*   if (!result) { push("unable to accept socket, ..."); continue; }
\*   push("new connection accepted");
ServerAccept(r) ==
    /\ netPc = "accept"
    /\ result' = r
    /\ IF ~r.has_value
         THEN /\ netLog' = << "unable to accept socket", r.val >>
              /\ netPc' = "accept"
              /\ netConnections' = netConnections
         ELSE /\ netLog' = << "new connection accepted", 0 >>
              /\ netPc' = "handle"
              /\ netConnections' = (netConnections + 1) % 3
    /\ UNCHANGED << request_result, restOfNet >>

\* server::handle_request: recv of 4 bytes; fewer than 4 is a failure that
\* carries the error 0, 4 bytes are the value in network byte order.
HandleRequest(amount, buffer) ==
    /\ netPc = "handle"
    /\ request_result' = IF amount # 4 THEN Unexpected(0)
                                      ELSE Expected(Ntohl(buffer))
    /\ netPc' = "branch"
    /\ UNCHANGED << result, netLog, netConnections, restOfNet >>

\* network_task after handle_request:
\*   if (result) push("Received network request with value {}",
\*                    request_result.value());
\*   else push("failed to handle request: {}", result.error());
\* The condition tests result, the accepted socket.  value() on an expected
\* that holds an error throws std::bad_expected_access; nothing catches it
\* and the terminate handler hangs.
NetworkTaskBranch ==
    /\ netPc = "branch"
    /\ IF result.has_value
         THEN IF request_result.has_value
                THEN /\ netLog' = << "Received network request with value",
                                     request_result.val >>
                     /\ netPc' = "accept"
                ELSE /\ netLog' = netLog
                     /\ netPc' = "terminated"
         ELSE /\ netLog' = << "failed to handle request", result.val >>
              /\ netPc' = "accept"
    /\ UNCHANGED << result, request_result, netConnections, restOfNet >>

\* ------------------------------------------------------------------------
\* cdc_device
\* ------------------------------------------------------------------------

restOfCdc == << wdVars, usbVars, descVars, cbVars, hidVars, pioVars, beatVars,
                killVars, logVars, netVars >>

\* The host opens or closes the serial port.
HostCdcLine ==
    /\ hostCdc' = ~hostCdc
    /\ UNCHANGED << connected_, cdcPc, cdcOp, cdcRet, cdcStack, errno,
                    connWriter, restOfCdc >>

\* usb_device_task, after tud_task(): sctu::cdc.update(), which is
\* connected_ = tud_cdc_connected().
CdcUpdate ==
    /\ connected_' = hostCdc
    /\ connWriter' = "usb"
    /\ UNCHANGED << hostCdc, cdcPc, cdcOp, cdcRet, cdcStack, errno, restOfCdc >>

\* CdcWrite with a fault: connected_ is not looked at.
CdcWriteNoCheck(t, size, written) ==
    /\ cdcPc[t] = "idle"
    /\ written <= size
    /\ cdcOp' = [cdcOp EXCEPT ![t] = "write"]
    /\ cdcRet' = [cdcRet EXCEPT ![t] = written]
    /\ cdcStack' = [cdcStack EXCEPT ![t] = TRUE]
    /\ UNCHANGED << connected_, hostCdc, cdcPc, errno, connWriter, restOfCdc >>

\* cdc_device::write(data), called by task t: -1 and ENXIO while connected_
\* is false; else tud_cdc_write takes what fits, written bytes of size.
CdcWrite(t, size, written) ==
    /\ cdcPc[t] = "idle"
    /\ written <= size
    /\ cdcOp' = [cdcOp EXCEPT ![t] = "write"]
    /\ IF ~connected_
         THEN /\ errno' = ENXIO
              /\ cdcRet' = [cdcRet EXCEPT ![t] = -1]
              /\ cdcStack' = [cdcStack EXCEPT ![t] = FALSE]
         ELSE /\ errno' = errno
              /\ cdcRet' = [cdcRet EXCEPT ![t] = written]
              /\ cdcStack' = [cdcStack EXCEPT ![t] = TRUE]
    /\ UNCHANGED << connected_, hostCdc, cdcPc, connWriter, restOfCdc >>

\* cdc_device::read(buffer), called by task t, up to its wait: -1 and ENXIO
\* while connected_ is false; else the task spins in
\* while(!tud_cdc_available()).
CdcRead(t) ==
    /\ cdcPc[t] = "idle"
    /\ cdcOp' = [cdcOp EXCEPT ![t] = "read"]
    /\ IF ~connected_
         THEN /\ errno' = ENXIO
              /\ cdcRet' = [cdcRet EXCEPT ![t] = -1]
              /\ cdcStack' = [cdcStack EXCEPT ![t] = FALSE]
              /\ cdcPc' = cdcPc
         ELSE /\ errno' = errno
              /\ cdcRet' = cdcRet
              /\ cdcStack' = [cdcStack EXCEPT ![t] = TRUE]
              /\ cdcPc' = [cdcPc EXCEPT ![t] = "spin"]
    /\ UNCHANGED << connected_, hostCdc, connWriter, restOfCdc >>

\* cdc_device::read, data has arrived: tud_cdc_read fills got bytes of the
\* buffer of that size, at least one.
CdcReadData(t, size, got) ==
    /\ cdcPc[t] = "spin"
    /\ got >= 1
    /\ got <= size
    /\ cdcRet' = [cdcRet EXCEPT ![t] = got]
    /\ cdcPc' = [cdcPc EXCEPT ![t] = "idle"]
    /\ UNCHANGED << connected_, hostCdc, cdcOp, cdcStack, errno, connWriter,
                    restOfCdc >>

\* ------------------------------------------------------------------------
\* Time
\* ------------------------------------------------------------------------

\* Some task that is not stopped has code to run now.
SomeTaskReady ==
    \/ \E c \in Cores : CpuReady(c)
    \/ WdReady
    \/ \E t \in Tasks : usbPc[t] \in {"store", "disconnect", "done"}
    \/ \E t \in Tasks : usbPc[t] = "settle" /\ usbDelay[t] = 0
    \/ MainWatchdogReady

\* The remaining delays that are running.
Timers ==
    {cpuDelay[c] : c \in {k \in Cores : wdCreated /\ k \notin cpuStalled}}
    \cup (IF wdCreated /\ ~wdStalled THEN {wdDelay} ELSE {})
    \cup (IF hwArmed THEN {hwLeft} ELSE {})
    \cup {usbDelay[t] : t \in {k \in Tasks : usbPc[k] = "settle"}}
    \cup (IF taskPc["watchdog"] = "update" THEN {mwDelay} ELSE {})

Elapse(left, d) == IF left > d THEN left - d ELSE 0

\* Time advances to the next expiry.  A hardware watchdog that reaches zero
\* resets the device.
Tick ==
    /\ ~hwReset
    /\ ~SomeTaskReady
    /\ Timers # {}
    /\ LET d == Min(Timers) IN
         /\ cpuDelay' = [c \in Cores |->
                IF wdCreated /\ c \notin cpuStalled
                   THEN Elapse(cpuDelay[c], d) ELSE cpuDelay[c]]
         /\ wdDelay' = IF wdCreated /\ ~wdStalled
                          THEN Elapse(wdDelay, d) ELSE wdDelay
         /\ hwLeft' = IF hwArmed THEN Elapse(hwLeft, d) ELSE hwLeft
         /\ hwReset' = (hwArmed /\ hwLeft <= d)
         /\ mwDelay' = IF taskPc["watchdog"] = "update"
                          THEN Elapse(mwDelay, d) ELSE mwDelay
         /\ usbDelay' = [t \in Tasks |->
                IF usbPc[t] = "settle"
                   THEN Elapse(usbDelay[t], d) ELSE usbDelay[t]]
    /\ UNCHANGED << wdCreated, watchdog_cpu_status, cpuStalled, missRun,
                    worstMiss, wdPc, wdIdx, wdStalled, hwArmed, pets,
                    quietCycle, active_controllers, tudConnected, usbPc,
                    usbOp, usbArg, usbLoaded, usbActive, usbDisc, usbConn,
                    descVars,
                    cbVars, hidVars, pioVars, beatVars, taskPc, retry,
                    killedBy, logVars, netVars, cdcVars >>

\* ------------------------------------------------------------------------
\* Specifications
\* ------------------------------------------------------------------------

NextWatchdog ==
    \/ InitializeWatchdogTasks
    \/ \E c \in Cores : WatchdogCpuTask(c)
    \/ \E c \in Cores : CpuMiss(c)
    \/ \E c \in Cores : CpuStall(c)
    \/ WatchdogEnable
    \/ WatchdogCheck
    \/ WatchdogUpdate
    \/ WatchdogFill
    \/ WdStall
    \/ Tick

SpecWatchdog == Init /\ [][NextWatchdog]_vars

\* The polling task's calls into the topology manager, and the host's
\* descriptor requests.
NextUsb ==
    \/ \E t \in Callers, a \in UsbArgs : UsbEnableController(t, a)
    \/ \E t \in Callers, a \in UsbArgs : UsbDisableController(t, a)
    \/ \E t \in Callers : UsbStore(t)
    \/ \E t \in Callers : TudDisconnect(t)
    \/ \E t \in Callers : TudConnect(t)
    \/ \E t \in Callers : UsbReturn(t)
    \/ TudDescriptorConfigurationCb
    \/ Tick

SpecUsb == Init /\ [][NextUsb]_vars

\* The polling task's calls while the USB task serves descriptor requests.
NextDesc ==
    \/ \E t \in Callers, a \in DescArgs : UsbEnableController(t, a)
    \/ \E t \in Callers, a \in DescArgs : UsbDisableController(t, a)
    \/ \E t \in Callers : UsbStore(t)
    \/ \E t \in Callers : TudDisconnect(t)
    \/ \E t \in Callers : TudConnect(t)
    \/ \E t \in Callers : UsbReturn(t)
    \/ GetDescriptorRequest
    \/ UpdateConfigurationAssign
    \/ UpdateConfigurationLoop
    \/ HostRead
    \/ Tick

SpecDesc == Init /\ [][NextDesc]_vars

\* values the polling task passes while other tasks read the mask
ReadArgs == {1, 12}

\* The polling task's calls while the debug console and the descriptor
\* callback read the mask.
NextRead ==
    \/ \E t \in Callers, a \in ReadArgs : UsbEnableController(t, a)
    \/ \E t \in Callers, a \in ReadArgs : UsbDisableController(t, a)
    \/ \E t \in Callers : UsbStore(t)
    \/ \E t \in Callers : TudDisconnect(t)
    \/ \E t \in Callers : TudConnect(t)
    \/ \E t \in Callers : UsbReturn(t)
    \/ UsbGetActiveControllers
    \/ TudDescriptorConfigurationCb
    \/ Tick

SpecRead == Init /\ [][NextRead]_vars

\* hid_task, the USB task's descriptor callback, the host, and a task that
\* calls usb_enable_controller / usb_disable_controller.
NextHid ==
    \/ \E t \in Callers, a \in HidArgs : UsbEnableController(t, a)
    \/ \E t \in Callers, a \in HidArgs : UsbDisableController(t, a)
    \/ \E t \in Callers : UsbStore(t)
    \/ \E t \in Callers : TudDisconnect(t)
    \/ \E t \in Callers : TudConnect(t)
    \/ \E t \in Callers : UsbReturn(t)
    \/ TudDescriptorConfigurationCb
    \/ HostSetConfiguration
    \/ HostBusReset
    \/ HostSuspendResume
    \/ HidWake
    \/ HidReady
    \/ HidSuspended
    \/ HidReport
    \/ Tick

SpecHid == Init /\ [][NextHid]_vars

\* The same with controllers plugged in and pulled out.
NextPoll ==
    \/ NextHid
    \/ \E i \in PluggedPorts, data \in CaptureWords : ControllerPlug(i, data)

SpecPoll == Init /\ [][NextPoll]_vars

\* The decoder alone, run on the captured words.
NextDecode ==
    \/ PioTrigger

SpecDecode == InitDecode /\ [][NextDecode]_vars

\* single mask bits two tasks pass when both call into the topology manager
RaceArgs == {1, 2}

\* Two tasks calling usb_enable_controller / usb_disable_controller.
NextRace ==
    \/ \E t \in Tasks, a \in RaceArgs : UsbEnableController(t, a)
    \/ \E t \in Tasks, a \in RaceArgs : UsbDisableController(t, a)
    \/ \E t \in Tasks : UsbStore(t)
    \/ \E t \in Tasks : TudDisconnect(t)
    \/ \E t \in Tasks : TudConnect(t)
    \/ \E t \in Tasks : UsbReturn(t)
    \/ Tick

SpecRace == Init /\ [][NextRace]_vars

\* What the scheduler and the clock do on their own: a ready task that has
\* not stopped gets to run, and time goes on when no task is ready.  A task
\* stopping or missing a heartbeat is a fault, and no fairness asks for it.
\* the value passed to enable/disable while the watchdog tasks run
ReconfArgs == {1}

\* The watchdog tasks, all running, and a task that calls
\* usb_enable_controller / usb_disable_controller.
NextReconf ==
    \/ InitializeWatchdogTasks
    \/ \E c \in Cores : WatchdogCpuTask(c)
    \/ WatchdogEnable
    \/ WatchdogCheck
    \/ WatchdogUpdate
    \/ WatchdogFill
    \/ \E t \in Callers, a \in ReconfArgs : UsbEnableController(t, a)
    \/ \E t \in Callers, a \in ReconfArgs : UsbDisableController(t, a)
    \/ \E t \in Callers : UsbStore(t)
    \/ \E t \in Callers : TudDisconnect(t)
    \/ \E t \in Callers : TudConnect(t)
    \/ \E t \in Callers : UsbReturn(t)
    \/ Tick

SpecReconf == Init /\ [][NextReconf]_vars

\* The steps of a call that is under way, and the passing of time: the
\* scheduler runs the calling task when it is ready.
UsbScheduled ==
    \/ \E t \in Callers : UsbStore(t)
    \/ \E t \in Callers : TudDisconnect(t)
    \/ \E t \in Callers : TudConnect(t)
    \/ \E t \in Callers : UsbReturn(t)
    \/ Tick

LiveUsb == Init /\ [][NextUsb]_vars /\ WF_vars(UsbScheduled)

\* The tasks of main.cpp around the hardware watchdog: the task "watchdog",
\* init_wifi and the command line's 'k'.
NextKill ==
    \/ InitTaskCreateWatchdog
    \/ InitTaskCreateOthers
    \/ MainWatchdogEnable
    \/ MainWatchdogUpdate
    \/ InitWifiFails
    \/ InitWifiConnects
    \/ InitWifiGivesUp
    \/ CliKill
    \/ Tick

SpecKill == Init /\ [][NextKill]_vars

\* The scheduler runs the tasks that are ready and time passes; the
\* failures of the Wi-Fi bring-up and the 'k' command come as they come.
KillScheduled ==
    \/ InitTaskCreateWatchdog
    \/ InitTaskCreateOthers
    \/ MainWatchdogEnable
    \/ MainWatchdogUpdate
    \/ Tick

LiveKill == Init /\ [][NextKill]_vars /\ WF_vars(KillScheduled)

\* The tasks that use sys_log.
NextLog ==
    \/ \E t \in LogTasks, n \in LogSizes : SafeSyslogCall(t, "push", n)
    \/ \E t \in LogTasks, op \in LogOps \ {"push"} : SafeSyslogCall(t, op, 0)
    \/ \E t \in LogTasks : XSemaphoreTake(t)
    \/ \E t \in LogTasks : SyslogPush(t)
    \/ \E t \in LogTasks : PrintCallback(t)
    \/ \E t \in LogTasks : SyslogSize(t)
    \/ \E t \in LogTasks : RegisterPushCallback(t)
    \/ \E t \in LogTasks : XSemaphoreGive(t)

SpecLog == Init /\ [][NextLog]_vars

\* One task pushing messages of every size.
NextPush ==
    \/ \E n \in PushSizes : SafeSyslogCall("wifi", "push", n)
    \/ SafeSyslogCall("wifi", "register", 0)
    \/ XSemaphoreTake("wifi")
    \/ SyslogPush("wifi")
    \/ PrintCallback("wifi")
    \/ RegisterPushCallback("wifi")
    \/ XSemaphoreGive("wifi")

SpecPush == Init /\ [][NextPush]_vars

\* A task that holds the semaphore is scheduled until it has given it back,
\* and a task that waits for the semaphore does not lose every race for it.
LiveLog ==
    /\ Init
    /\ [][NextLog]_vars
    /\ \A t \in LogTasks :
           /\ SF_vars(XSemaphoreTake(t))
           /\ WF_vars(SyslogPush(t))
           /\ WF_vars(PrintCallback(t))
           /\ WF_vars(SyslogSize(t))
           /\ WF_vars(RegisterPushCallback(t))
           /\ WF_vars(XSemaphoreGive(t))

\* network_task and the peers that connect to it.
NextNet ==
    \/ \E fd \in AcceptSockets : ServerAccept(Expected(fd))
    \/ \E e \in AcceptErrnos : ServerAccept(Unexpected(e))
    \/ \E amount \in RecvAmounts, buffer \in RecvBuffers : HandleRequest(amount, buffer)
    \/ NetworkTaskBranch

SpecNet == Init /\ [][NextNet]_vars

\* The serial console: the USB task, the host and the tasks that print and
\* read.
NextCdc ==
    \/ HostCdcLine
    \/ CdcUpdate
    \/ \E t \in CdcTasks, size \in CdcSizes, written \in 0 .. 2 : CdcWrite(t, size, written)
    \/ \E t \in CdcTasks : CdcRead(t)
    \/ \E t \in CdcTasks, size \in CdcSizes, got \in 1 .. 2 : CdcReadData(t, size, got)

SpecCdc == Init /\ [][NextCdc]_vars

Scheduled ==
    \/ InitializeWatchdogTasks
    \/ \E c \in Cores : WatchdogCpuTask(c)
    \/ WatchdogEnable
    \/ WatchdogCheck
    \/ WatchdogUpdate
    \/ WatchdogFill
    \/ Tick

LiveWatchdog == Init /\ [][NextWatchdog]_vars /\ WF_vars(Scheduled)

\* ------------------------------------------------------------------------
\* Watchdog supervisor: properties
\* ------------------------------------------------------------------------

AllFlagsSet == \A c \in Cores : watchdog_cpu_status[c]

\* the step in which all_of returns true / returns false
AllOfTrue == WdReady /\ wdPc = "check" /\ wdPc' = "update"
AllOfFalse == WdReady /\ wdPc = "check" /\ wdDelay' = AggregatorPeriod

\* C1: in every aggregator cycle the watchdog is petted iff all per-core
\* flags are set when all_of decides; that cycle then stores false to every
\* flag, in index order, before it ends.  A cycle that finds a flag clear
\* ends at once, with no pet and no flag changed.  Nothing but the fill of a
\* petting cycle ever clears a flag.
C1_PetIffAllFlagsSet ==
    [][ /\ AllOfTrue => AllFlagsSet
        /\ AllOfFalse => /\ ~AllFlagsSet
                         /\ watchdog_cpu_status' = watchdog_cpu_status
                         /\ pets' = pets
        /\ pets' # pets => /\ wdPc = "update"
                           /\ AllFlagsSet
                           /\ pets' = (pets + 1) % (MaxPets + 1)
        /\ (wdPc = "update" /\ wdPc' # "update") =>
               /\ pets' = (pets + 1) % (MaxPets + 1)
               /\ wdPc' = "fill"
               /\ wdIdx' = 0
        /\ (wdPc = "fill" /\ << wdPc, wdIdx >>' # << wdPc, wdIdx >>) =>
               /\ ~watchdog_cpu_status'[wdIdx]
               /\ wdPc' = "fill" => wdIdx' = wdIdx + 1
               /\ wdPc' # "fill" => wdIdx = cpu_cores - 1
        /\ \A c \in Cores :
               (watchdog_cpu_status[c] /\ ~watchdog_cpu_status'[c]) =>
                   (wdPc = "fill" /\ wdIdx = c)
      ]_vars

\* C1 witness: a cycle has petted and cleared every flag, and the
\* aggregator is blocked in its delay.
C1_Witness ==
    /\ pets > 0
    /\ \A c \in Cores : ~watchdog_cpu_status[c]
    /\ wdPc = "check"
    /\ wdDelay = AggregatorPeriod

\* C2 as stated: once a core's task has stopped and an aggregation cycle
\* has ended since the task last set its flag, the flag is never set again
\* after that cycle, and the number of watchdog_update() calls no longer
\* changes.
C2_NoPetAfterLastSet ==
    [][ (\E c \in cpuStalled : quietCycle[c]) => pets' = pets ]_vars

\* C2 amended: once a core's task has stopped while its flag is clear, the
\* number of watchdog_update() calls no longer changes.
C2_NoPetOnceFlagClear ==
    [][ (\E c \in cpuStalled : ~watchdog_cpu_status[c]) => pets' = pets ]_vars

\* C2 witness: a core stopped with its flag clear, the other core's flag is
\* set, and the aggregator has run further cycles without a pet.
C2_Witness ==
    /\ \E c \in cpuStalled : ~watchdog_cpu_status[c] /\ quietCycle[c]
    /\ \E c \in Cores : watchdog_cpu_status[c] /\ quietCycle[c]
    /\ pets > 0
    /\ ~hwReset

SomeTaskStopped == cpuStalled # {} \/ wdStalled

C4_HealthyNeverReset ==
    (~SomeTaskStopped /\ worstMiss <= 1) =>
        (~hwReset /\ (hwArmed => hwLeft > 0))

\* C4 witness: a heartbeat was missed once, the pets went on, nothing
\* stopped and the device is running.
C4_Witness ==
    /\ ~SomeTaskStopped
    /\ worstMiss = 1
    /\ pets = MaxPets
    /\ ~hwReset

\* ------------------------------------------------------------------------
\* USB topology manager: properties
\* ------------------------------------------------------------------------

\* the call of caller t has run to its end and is about to return
CallOver(t) == usbPc[t] = "done"

\* the call of caller t made one disconnect/reconnect sequence, or none
OneSequence(t) == usbDisc[t] = 1 /\ usbConn[t] = 1
NoSequence(t) == usbDisc[t] = 0 /\ usbConn[t] = 0

\* C5: a caller's usb_enable_controller(p) for a port index p that directly
\* follows its own usb_enable_controller(p) returns at once: it stores no
\* mask and signals no disconnect.
C5_SecondEnableIsNoOp ==
    [][ \A t \in Callers :
          ( /\ usbPc[t] = "idle"
            /\ usbPc'[t] # "idle"
            /\ usbOp[t] = "enable"
            /\ usbOp'[t] = "enable"
            /\ usbArg[t] \in PortIndex
            /\ usbArg'[t] = usbArg[t] )
          => ( /\ usbPc'[t] = "done"
               /\ usbActive'[t] = usbLoaded'[t] )
      ]_vars

\* C6: usb_disable_controller(p) for a port index p whose bit was set clears
\* bit p and makes exactly one disconnect/reconnect sequence; for a port
\* whose bit was clear it changes nothing and signals nothing.
C6_DisableClearsPortBit ==
    \A t \in Callers :
        (CallOver(t) /\ usbOp[t] = "disable" /\ usbArg[t] \in PortIndex) =>
            IF Bit(usbLoaded[t], usbArg[t]) = 1
              THEN Bit(active_controllers, usbArg[t]) = 0 /\ OneSequence(t)
              ELSE active_controllers = usbLoaded[t] /\ NoSequence(t)

\* C7: when usb_enable_controller(i) is over bit i of the mask is set, when
\* usb_disable_controller(i) is over bit i is clear, and every other bit is
\* as the call found it.
C7_PortIndexSelectsBit ==
    \A t \in Callers :
        (CallOver(t) /\ usbArg[t] \in PortIndex) =>
            /\ usbOp[t] = "enable" => Bit(active_controllers, usbArg[t]) = 1
            /\ usbOp[t] = "disable" => Bit(active_controllers, usbArg[t]) = 0
            /\ \A j \in (0 .. 7) \ {usbArg[t]} :
                   Bit(active_controllers, j) = Bit(usbLoaded[t], j)

\* C8: a call makes a disconnect/reconnect sequence if and only if it
\* changed the value of the mask.
C8_SequenceIffMaskChanged ==
    \A t \in Callers :
        CallOver(t) =>
            /\ OneSequence(t) \/ NoSequence(t)
            /\ OneSequence(t) <=> (active_controllers # usbLoaded[t])

\* C9: the mask never has more bits set than the USB stack has HID
\* interfaces, and neither has a descriptor built from it; a call whose
\* argument has bits beyond the four ports ends like any other, with those
\* bits dropped.
C9_MaskWithinHidLimit ==
    /\ active_controllers \in 0 .. 15
    /\ PopCount(active_controllers) <= CFG_TUD_HID
    /\ desc_configuration # << >> =>
           desc_configuration[5] <= 2 + CFG_TUD_HID
    /\ \A t \in Callers :
           (CallOver(t) /\ OneSequence(t)) =>
               active_controllers =
                   IF usbOp[t] = "enable"
                     THEN BitOr(usbLoaded[t], BitAnd(usbArg[t], 15))
                     ELSE BitAndNot(usbLoaded[t], BitAnd(usbArg[t], 15))

\* C9 witness: a call asking for all eight bits is over, and the mask holds
\* the four ports.
C9_Witness ==
    \E t \in Callers :
        /\ CallOver(t)
        /\ usbOp[t] = "enable"
        /\ usbArg[t] = 255
        /\ OneSequence(t)
        /\ active_controllers = 15

\* the total length and the interface count a descriptor declares
DeclaredLength(d) == d[3] + 256 * d[4]
DeclaredInterfaces(d) == d[5]

\* C10: the descriptor of the most recent rebuild declares 2 + popcount(mask)
\* interfaces and a total length of header + CDC block + popcount(mask) HID
\* blocks, and it is exactly that long.
C10_DeclaredCountAndLength ==
    desc_configuration # << >> =>
        LET n == PopCount(descMask) IN
        /\ DeclaredInterfaces(desc_configuration) = 2 + n
        /\ DeclaredLength(desc_configuration) =
               TUD_CONFIG_DESC_LEN + TUD_CDC_DESC_LEN + n * TUD_HID_DESC_LEN
        /\ Len(desc_configuration) = DeclaredLength(desc_configuration)
        /\ descMask = 1 => /\ DeclaredInterfaces(desc_configuration) = 3
                           /\ Len(desc_configuration) =
                                  TUD_CONFIG_DESC_LEN + TUD_CDC_DESC_LEN
                                  + TUD_HID_DESC_LEN
        /\ descMask = 15 => /\ DeclaredInterfaces(desc_configuration) = 6
                            /\ Len(desc_configuration) =
                                   TUD_CONFIG_DESC_LEN + TUD_CDC_DESC_LEN
                                   + 4 * TUD_HID_DESC_LEN

\* C10 witness: a descriptor built for all four ports.
C10_Witness ==
    /\ descMask = 15
    /\ active_controllers = 15
    /\ Len(desc_configuration) > TUD_CONFIG_DESC_LEN + TUD_CDC_DESC_LEN
    /\ DeclaredInterfaces(desc_configuration) = 6

\* the ports whose bit is set in a mask, and the dense slot of an enabled
\* port: the number of enabled ports below it
EnabledPorts(mask) == {p \in PortIndex : Bit(mask, p) = 1}
SlotOf(mask, p) == Cardinality({q \in EnabledPorts(mask) : q < p})

\* the k-th HID block of a descriptor (k counted from 0), after the header
\* and the console block
HidBlockAt(d, k) ==
    SubSeq(d,
           TUD_CONFIG_DESC_LEN + TUD_CDC_DESC_LEN + k * TUD_HID_DESC_LEN + 1,
           TUD_CONFIG_DESC_LEN + TUD_CDC_DESC_LEN + (k + 1) * TUD_HID_DESC_LEN)

\* C11: the descriptor of the most recent rebuild holds, after the header
\* and the console block, exactly one HID block per set bit of the mask, in
\* ascending port order: the block of the k-th enabled port is an interface
\* descriptor with interface number 2 + k, string index 5 + port index, and
\* an IN endpoint descriptor with address 0x80 | (3 + k), so the endpoint
\* addresses increase strictly from block to block.
C11_HidBlockPerEnabledPort ==
    desc_configuration # << >> =>
        LET d == desc_configuration
            ports == EnabledPorts(descMask)
        IN  /\ Len(d) = TUD_CONFIG_DESC_LEN + TUD_CDC_DESC_LEN
                        + Cardinality(ports) * TUD_HID_DESC_LEN
            /\ \A p \in ports :
                   LET k == SlotOf(descMask, p)
                       b == HidBlockAt(d, k)
                   IN  /\ Len(b) = TUD_HID_DESC_LEN
                       /\ b[1] = 9 /\ b[2] = 4
                       /\ b[3] = 2 + k
                       /\ b[9] = 5 + p
                       /\ b[19] = 7 /\ b[20] = 5
                       /\ b[21] = 128 + 3 + k
            /\ \A p, q \in ports :
                   p < q => HidBlockAt(d, SlotOf(descMask, p))[21]
                            < HidBlockAt(d, SlotOf(descMask, q))[21]

\* C11 witness: a descriptor built for ports 1 and 3 only: the dense slots
\* 0 and 1 differ from the port indices.
C11_Witness ==
    /\ descMask = 10
    /\ Len(desc_configuration) =
           TUD_CONFIG_DESC_LEN + TUD_CDC_DESC_LEN + 2 * TUD_HID_DESC_LEN
    /\ HidBlockAt(desc_configuration, 1)[9] = 5 + 3
    /\ HidBlockAt(desc_configuration, 1)[3] = 2 + 1

\* ------------------------------------------------------------------------
\* Descriptor requests and the shared mask: properties
\* ------------------------------------------------------------------------

IsPrefix(a, b) == Len(a) <= Len(b) /\ a = SubSeq(b, 1, Len(a))

\* the step in which the callback is entered, and the step in which the
\* stack reads from the buffer
RequestStep == cbPc # "assign" /\ cbPc' = "assign"
ReadStep == hostGot' # hostGot /\ hostGot' # << >>

C13_RebuildFromCurrentMask ==
    [][ /\ RequestStep => cbMask' = active_controllers
        /\ \A t \in Callers :
               /\ usbDisc'[t] > usbDisc[t] => active_controllers = usbActive[t]
               /\ (RequestStep /\ usbConn[t] > 0) => cbMask' = usbActive[t]
        /\ (cbPc = "loop" /\ cbPc' = "xfer") =>
               desc_configuration' = UpdateConfiguration(cbMask)
      ]_vars

\* C13 witness: a call changed the mask from 0b0001 to 0b0011 and has
\* reconnected, and a request has built the descriptor of the new mask.
C13_Witness ==
    /\ cbPc = "xfer"
    /\ \E t \in Callers :
           /\ usbConn[t] > 0
           /\ usbLoaded[t] = 1
           /\ usbActive[t] = 3
    /\ cbMask = 3
    /\ desc_configuration = UpdateConfiguration(3)

\* the value the mask had when a task's latest call loaded it, and the value
\* that call stores
MaskValuesOfCall(t) == {usbLoaded[t], usbActive[t]}

\* C14: whatever the polling task is doing, usb_get_active_controllers()
\* and the descriptor callback can take their step (they wait for no lock),
\* and the value they get is a whole value of the mask: the one from before
\* the polling task's latest call stored, or the one that call stores, never
\* bits of both.
C14_ReadersSeeWholeValues ==
    [][ /\ ENABLED UsbGetActiveControllers
        /\ ENABLED TudDescriptorConfigurationCb
        /\ getSeq' # getSeq =>
               \E t \in Callers : gotActive' \in MaskValuesOfCall(t)
        /\ descMask' # descMask =>
               \E t \in Callers : descMask' \in MaskValuesOfCall(t)
      ]_vars

\* C14 witness: the mask was read while a call that changes two bits at
\* once was in its settle delay, and the read returned the new value.
C14_Witness ==
    /\ getSeq = 1
    /\ \E t \in Callers :
           /\ usbPc[t] = "settle"
           /\ usbLoaded[t] = 1
           /\ usbActive[t] = 13
           /\ gotActive = 13
           /\ usbDelay[t] > 0

\* C15: the store of an enable or disable call changes no mask bit other
\* than the bits of the call's own argument: what another task's call has
\* stored since this call loaded the mask is still there afterwards.
C15_NoLostUpdate ==
    [][ \A t \in Tasks :
           (usbPc[t] = "store" /\ usbPc'[t] # "store") =>
               BitAndNot(active_controllers', BitAnd(usbArg[t], 15))
                   = BitAndNot(active_controllers, BitAnd(usbArg[t], 15))
      ]_vars

\* ------------------------------------------------------------------------
\* hid_task: change detection and wake priority
\* ------------------------------------------------------------------------

\* hid_task sends a report: the step that leaves tud_hid_n_report.
ReportStep == hidPc = "report" /\ hidPc' # "report"

\* C16: when the previous polling cycle read a state for a HID instance and
\* compared it (it sent it, or found it equal to the last one), and this
\* cycle reads an equal state for the instance, this cycle sends no report
\* on the instance.
C16_NoReportOnEqualState ==
    [][ ReportStep =>
          ~ ( /\ hidOutcome[hidSlot].did \in {"same", "report"}
              /\ hidOutcome[hidSlot].data = hidData )
      ]_vars

\* hid_task evaluates the condition of the wakeup branch.
SuspendedStep == hidPc = "suspended" /\ hidPc' # "suspended"

\* C17: when the bus is suspended and the state read for a ready instance has
\* a non-neutral axis or a button set, the cycle calls tud_remote_wakeup()
\* and goes on without sending a report on the instance, whether or not the
\* state differs from last_data.
C17_WakeupInsteadOfReport ==
    [][ (SuspendedStep /\ tudSuspended /\ NonNeutral(hidData)) =>
          /\ hidOutcome'[hidSlot].did = "wakeup"
          /\ hidPc' # "report"
          /\ last_data' = last_data
      ]_vars

\* a wakeup was issued for a state that differs from last_data
C17_Witness ==
    \E k \in HidInstances :
        /\ hidOutcome[k].did = "wakeup"
        /\ hidOutcome[k].data # last_data
        /\ NonNeutral(hidOutcome[k].data)

\* ------------------------------------------------------------------------
\* hid_task: the slots reports are sent on
\* ------------------------------------------------------------------------

\* C18: a report is only sent on a HID instance that is one of the slots of
\* the ports enabled in active_controllers when it is sent (the instance was
\* reported ready by tud_hid_n_ready() in the same cycle).
C18_ReportOnlyOnEnabledSlot ==
    [][ ReportStep => hidSlot < PopCount(BitAnd(active_controllers, 15)) ]_vars

\* mapping every enabled port to the number of enabled ports below it is a
\* bijection onto 0 .. count-1 that preserves the order of the ports
DenseSlots(mask) ==
    /\ \A p \in EnabledPorts(mask) :
          SlotOf(mask, p) \in 0 .. Cardinality(EnabledPorts(mask)) - 1
    /\ \A k \in 0 .. Cardinality(EnabledPorts(mask)) - 1 :
          \E p \in EnabledPorts(mask) : SlotOf(mask, p) = k
    /\ \A p, q \in EnabledPorts(mask) :
          p < q => SlotOf(mask, p) < SlotOf(mask, q)

\* C19: for every mask value the slot assignment is an order-preserving
\* bijection from the enabled ports onto 0 .. count-1, and the HID instance a
\* report is sent on is the slot that assignment gives to an enabled port of
\* the current mask.
C19_ReportAddressedByDenseSlot ==
    [][ /\ \A mask \in 0 .. 15 : DenseSlots(mask)
        /\ ReportStep =>
              \E p \in EnabledPorts(active_controllers) :
                  SlotOf(active_controllers, p) = hidSlot
      ]_vars

\* a polling cycle of hid_task ends
CycleEnd == hidPc # "wait" /\ hidPc' = "wait"

\* C20: after every polling cycle, bit i of active_controllers is set for
\* every port i whose captured word decodes as connected (the cycle has called
\* enable for the port when its connected flag came up).
C20_MaskFollowsConnected ==
    [][ CycleEnd =>
          \A i \in PortIndex :
              Trigger(smData'[i]).connected => Bit(active_controllers', i) = 1
      ]_vars

\* ------------------------------------------------------------------------
\* pio_controllers::trigger: decoding
\* ------------------------------------------------------------------------

\* trigger() has returned
Decoded == trigResult # << >>

\* C21: for every captured word, the decoded x and the decoded y are each
\* one of -127, 0 and 127.
C21_AxesAreTernary ==
    Decoded =>
        \A i \in PortIndex :
            /\ trigResult[i].x \in {-127, 0, 127}
            /\ trigResult[i].y \in {-127, 0, 127}

\* both directions of both axes are set in the captured word
C21_Witness ==
    /\ Decoded
    /\ \A b \in {8, 10, 12, 14} : Bit(smData[0], b) = 1

\* the word 0x50000000: bits 28 and 30
Word50000000 == Pow2(28) + Pow2(30)

\* what the decoder returns for a plugged-in controller with nothing pressed
ConnectedNeutral == [connected |-> TRUE, x |-> 0, y |-> 0, buttons |-> 0]

\* C22 as stated: the captured word 0x50000000 decodes to connected with
\* x = 0, y = 0 and buttons = 0.
C22_Word50000000Connected ==
    (Decoded /\ smData[0] = Word50000000) => trigResult[0] = ConnectedNeutral

\* C22: the word with bits 24, 26, 28 and 30 set and no other bit set, which
\* is 0x55000000, decodes to connected with x = 0, y = 0 and buttons = 0;
\* the word 0x50000000 has only bits 28 and 30 set and decodes to not
\* connected with x = 0, y = 0 and buttons = 0.
C22_StrobesOnlyWordConnected ==
    Decoded =>
        /\ smData[0] = ConnectedWord => trigResult[0] = ConnectedNeutral
        /\ smData[0] = Word50000000 =>
               trigResult[0] = [ConnectedNeutral EXCEPT !.connected = FALSE]

\* the word with exactly the four strobe bits has been decoded
C22_Witness == Decoded /\ smData[0] = ConnectedWord

\* the wire-present strobes
StrobeBits == {24, 26, 28, 30}

\* C23: for every captured word, the decoded connected flag is true if and
\* only if bits 24, 26, 28 and 30 of the word are all 1.
C23_ConnectedIffAllStrobes ==
    Decoded =>
        \A i \in PortIndex :
            trigResult[i].connected
                <=> (\A b \in StrobeBits : Bit(smData[i], b) = 1)

\* a word with all four strobes and something else set decoded as connected
C23_Witness ==
    /\ Decoded
    /\ trigResult[0].connected
    /\ smData[0] # ConnectedWord

\* the captured bit that buttons bit k is taken from, k = 0 .. 7
ButtonBits == << 0, 2, 3, 4, 16, 18, 20, 22 >>

\* C24: for every captured word, buttons bit k (k = 0 .. 7) equals the
\* captured bit at position 0, 2, 3, 4, 16, 18, 20, 22 respectively and
\* buttons has no other bit; x is -127 when bit 12 is set, else 127 when bit
\* 14 is set, else 0; y is 127 when bit 8 is set, else -127 when bit 10 is
\* set, else 0.
C24_BitPositionTable ==
    Decoded =>
        \A i \in PortIndex :
            LET data == smData[i]
                r == trigResult[i]
            IN  /\ r.buttons \in 0 .. 255
                /\ \A k \in 0 .. 7 :
                       Bit(r.buttons, k) = Bit(data, ButtonBits[k + 1])
                /\ Bit(data, 12) = 1 => r.x = -127
                /\ (Bit(data, 12) = 0 /\ Bit(data, 14) = 1) => r.x = 127
                /\ (Bit(data, 12) = 0 /\ Bit(data, 14) = 0) => r.x = 0
                /\ Bit(data, 8) = 1 => r.y = 127
                /\ (Bit(data, 8) = 0 /\ Bit(data, 10) = 1) => r.y = -127
                /\ (Bit(data, 8) = 0 /\ Bit(data, 10) = 0) => r.y = 0

\* a word with both directions of the x axis and the button at bit 3 set has
\* been decoded
C24_Witness ==
    /\ Decoded
    /\ Bit(smData[0], 12) = 1
    /\ Bit(smData[0], 14) = 1
    /\ Bit(smData[0], 3) = 1
    /\ trigResult[0].buttons = 4

\* ------------------------------------------------------------------------
\* USB topology manager: the reconfiguration sequence
\* ------------------------------------------------------------------------

\* caller t signals tud_disconnect() / tud_connect() in this step
DisconnectStep(t) == usbDisc'[t] = usbDisc[t] + 1
ConnectStep(t) == usbConn'[t] = usbConn[t] + 1

\* The steps of one call come in the order store, disconnect, delay,
\* reconnect: the mask is stored before any signal of the call, the
\* disconnect is signalled with the new mask in place, and the reconnect is
\* signalled after the disconnect once the whole delay has elapsed.
SequenceInOrder(t) ==
    /\ active_controllers' # active_controllers =>
           /\ usbDisc[t] = 0 /\ usbConn[t] = 0
           /\ tudConnected' = tudConnected
    /\ DisconnectStep(t) =>
           /\ active_controllers = usbActive[t]
           /\ usbConn[t] = 0
           /\ ~tudConnected'
           /\ usbDelay'[t] = SettleDelay
    /\ ConnectStep(t) =>
           /\ usbDisc[t] = 1
           /\ usbDelay[t] = 0
           /\ active_controllers = usbActive[t]
           /\ tudConnected'

Settling == \E t \in Callers : usbPc[t] = "settle"

\* C26: a reconfiguration never trips the watchdog: while a call blocks its
\* task for the delay, the heartbeat tasks and the aggregator are never
\* further from their next run than their periods, and the hardware watchdog
\* has not run out.
C26_ReconfigurationKeepsWatchdogFed ==
    /\ ~hwReset
    /\ hwArmed => hwLeft > 0
    /\ \A c \in Cores : cpuDelay[c] <= HeartbeatPeriod
    /\ wdDelay <= AggregatorPeriod

\* the hardware watchdog has just been reloaded while a call is part of the
\* way through its delay
C26_Witness ==
    /\ Settling
    /\ \E t \in Callers : usbDelay[t] > 0 /\ usbDelay[t] < SettleDelay
    /\ hwArmed
    /\ hwLeft = WatchdogTimeout
    /\ pets > 0

\* C27 as stated: the delay for which a reconfiguration blocks its task is
\* shorter than the period of the heartbeat tasks.
C27_SettleShorterThanHeartbeat ==
    [][ \A t \in Callers :
          DisconnectStep(t) => usbDelay'[t] < HeartbeatPeriod ]_vars

\* C27: the delay for which a reconfiguration blocks its task is longer than
\* the period of the heartbeat tasks and shorter than the timeout of the
\* hardware watchdog.
C27_SettleLongerThanHeartbeat ==
    [][ \A t \in Callers :
          DisconnectStep(t) =>
              /\ usbDelay'[t] > HeartbeatPeriod
              /\ usbDelay'[t] < WatchdogTimeout
      ]_vars

\* more than one heartbeat period of a delay has gone by and a heartbeat
\* task is setting its flag again
C27_Witness ==
    \E t \in Callers :
        /\ usbPc[t] = "settle"
        /\ usbDelay[t] > 0
        /\ usbDelay[t] < SettleDelay - HeartbeatPeriod
        /\ \E c \in Cores : cpuDelay[c] = HeartbeatPeriod

\* a task starts a delay in this step
AggregatorSleeps == wdDelay' > wdDelay
HeartbeatSleeps(c) == cpuDelay'[c] > cpuDelay[c]

\* C28 as stated: the aggregator sleeps for a fixed period that is longer
\* than the fixed period the heartbeat tasks sleep for.
C28_AggregatorPeriodLonger ==
    [][ /\ AggregatorSleeps => wdDelay' > HeartbeatPeriod
        /\ \A c \in Cores : HeartbeatSleeps(c) => cpuDelay'[c] < AggregatorPeriod
      ]_vars

\* C28: the aggregator sleeps for a fixed period, every heartbeat task sleeps
\* for a fixed period, and the aggregator's period is the shorter of the two.
C28_AggregatorPeriodShorter ==
    [][ /\ AggregatorSleeps =>
              wdDelay' = AggregatorPeriod /\ wdDelay' < HeartbeatPeriod
        /\ \A c \in Cores :
              HeartbeatSleeps(c) =>
                  cpuDelay'[c] = HeartbeatPeriod /\ cpuDelay'[c] > AggregatorPeriod
      ]_vars

\* the aggregator has gone to sleep again, after a pet, while a heartbeat
\* task set its flag less than an aggregator period ago and still sleeps
C28_Witness ==
    /\ wdDelay = AggregatorPeriod
    /\ pets > 0
    /\ \E c \in Cores :
          /\ cpuDelay[c] < HeartbeatPeriod
          /\ cpuDelay[c] > HeartbeatPeriod - AggregatorPeriod

\* ------------------------------------------------------------------------
\* hid_task: the last state sent on an instance
\* ------------------------------------------------------------------------

\* C29: a report is sent on a HID instance only when its state differs from
\* the state of the last report sent on that same instance: no two reports
\* in a row on one instance carry the same x, y and buttons, whatever was
\* sent on the other instance in between.
C29_NoRepeatedPayload ==
    [][ ReportStep => hidData # hidLastSent[hidSlot] ]_vars

\* C30: when an instance on which a report has been sent is ready and the
\* wakeup condition does not apply, a state that differs from the state last
\* sent on that instance is reported in that cycle, however many cycles
\* before it sent nothing on the instance: no change of the input is lost.
C30_ChangeReportedWhenReady ==
    [][ ( /\ SuspendedStep
          /\ ~(tudSuspended /\ NonNeutral(hidData))
          /\ hidLastSent[hidSlot] # << >>
          /\ hidData # hidLastSent[hidSlot] )
        => hidPc' = "report"
      ]_vars

\* ------------------------------------------------------------------------
\* usb_enable_controller / usb_disable_controller: arguments of several bits
\* ------------------------------------------------------------------------

C40_UpperNibbleZero ==
    BitAnd(active_controllers, 240) = 0

\* C40 witness: a usb_enable_controller call whose argument has upper bits
\* set (16 or 255) ran its store and is over.
C40_Witness ==
    \E t \in Callers :
        /\ CallOver(t)
        /\ usbOp[t] = "enable"
        /\ usbArg[t] >= 16
        /\ OneSequence(t)


\* ------------------------------------------------------------------------
\* Watchdog supervisor: pets after a stop, and heartbeats per pet
\* ------------------------------------------------------------------------

\* C37: after the heartbeat task of a core has stopped for good, the
\* aggregator calls watchdog_update() at most once more, and it does so only
\* if the core's flag was set at the moment the task stopped.
C37_AtMostOnePetAfterStop ==
    \A c \in cpuStalled :
        /\ stopPets[c] <= 1
        /\ stopPets[c] = 1 => stopFlag[c] = "set"

\* C37 witness: a core's task stopped with its flag set, the one further pet
\* consumed the flag, and the aggregator has ended a cycle without a pet
\* since.
C37_Witness ==
    \E c \in cpuStalled :
        /\ stopFlag[c] = "set"
        /\ stopPets[c] = 1
        /\ ~watchdog_cpu_status[c]
        /\ quietCycle[c]
        /\ wdPc = "check"
        /\ ~hwReset

\* C38: whenever all_of returns true, each core's heartbeat task has set
\* its flag since the previous time all_of returned true; a heartbeat
\* never counts for two pets, at whatever points the heartbeat stores fall
\* between the aggregator's loads, its pet and its stores.
C38_FreshHeartbeatPerPet ==
    [][ AllOfTrue => \A c \in Cores : freshBeat[c] ]_vars

\* C38 witness: after a pet, a heartbeat that was stored between the check
\* and the clear has been erased: the task has set its flag since the check
\* and the flag is clear again, the fill being over.
C38_Witness ==
    /\ pets > 0
    /\ wdPc = "check"
    /\ wdDelay > 0
    /\ \E c \in Cores : freshBeat[c] /\ ~watchdog_cpu_status[c]
    /\ ~hwReset

\* ------------------------------------------------------------------------
\* hid_task: edges and slots within one cycle
\* ------------------------------------------------------------------------

\* C31: every connect/disconnect edge of a polling cycle is applied to the
\* mask before a report of that cycle is addressed: when a report is sent,
\* the mask holds every port whose captured word decodes as connected, and
\* the report goes to the slot the mask gives to one of those ports.
C31_ReportAfterEdgesApplied ==
    [][ ReportStep =>
          /\ \A i \in PortIndex :
                 Trigger(smData[i]).connected => Bit(active_controllers, i) = 1
          /\ \E p \in EnabledPorts(active_controllers) :
                 /\ Trigger(smData[p]).connected
                 /\ SlotOf(active_controllers, p) = hidSlot
      ]_vars

\* ------------------------------------------------------------------------
\* main.cpp: deleting the task "watchdog"
\* ------------------------------------------------------------------------

\* task k runs the kill lines in this step: init_wifi leaves its loop with
\* retry = 10, or the command line has read a 'k'
KillStep(k) ==
    /\ taskPc[k] = (IF k = "wifi" THEN "attempt" ELSE "read")
    /\ taskPc'[k] \in {"spin", "deleted"}
    /\ k = "wifi" => retry = WifiAttempts

PushStep(t) == logPc[t] = "body" /\ logOp[t] = "push" /\ logPc'[t] # "body"

\* C33: in every state the sizes of the stored records add up to
\* max_size - space_available_ and to no more than max_size.  A push of a
\* message longer than max_size leaves the records and space_available_ as
\* they were; any other push removes the k oldest records and appends the
\* message, where each removed record was removed because the message did
\* not fit without it.
C33_LogSizeAccounting ==
    /\ [] ( /\ SumSizes(logs_) = max_size - space_available_
            /\ SumSizes(logs_) <= max_size )
    /\ [][ \A t \in LogTasks :
              PushStep(t) =>
                  LET n == logArg[t] IN
                  IF n > max_size
                    THEN logs_' = logs_ /\ space_available_' = space_available_
                    ELSE \E k \in 0 .. Len(logs_) :
                            /\ logs_' = Append(SubSeq(logs_, k + 1, Len(logs_)), n)
                            /\ k > 0 =>
                                   n > space_available_
                                         + SumSizes(SubSeq(logs_, 1, k - 1))
        ]_vars

\* C33 witness: the last push evicted the two oldest records and kept a
\* younger one, and the log is full.
C33_Witness ==
    /\ pushed.stored
    /\ pushed.evicted = 2
    /\ Len(logs_) = 2
    /\ space_available_ = 0

\* ------------------------------------------------------------------------
\* safe_syslog: one task at a time
\* ------------------------------------------------------------------------

\* the tasks that are between xSemaphoreTake and xSemaphoreGive
InsideLog == {t \in LogTasks : logPc[t] \in {"body", "callback", "give"}}

C35_FailedRequestLogged ==
    [][ (netPc = "branch" /\ ~request_result.has_value /\ netPc' # "branch") =>
          /\ netLog'[1] = "failed to handle request"
          /\ netPc' = "accept"
      ]_vars

\* ------------------------------------------------------------------------
\* cdc_device: calls while not connected
\* ------------------------------------------------------------------------

\* what a call of task t leaves behind
CdcCall(t) == << cdcOp[t], cdcRet[t], cdcStack[t], cdcPc[t] >>

\* task t calls write or read in this step
CdcCallStep(t) == cdcPc[t] = "idle" /\ CdcCall(t)' # CdcCall(t)

\* C36: a write or a read called while connected_ is false returns -1, sets
\* errno to ENXIO and calls nothing of the USB stack; and connected_ changes
\* only in a step of update(), run by the USB task, in which no write or read
\* takes part.
C36_NotConnectedIsENXIO ==
    [][ /\ \A t \in CdcTasks :
              (CdcCallStep(t) /\ ~connected_) =>
                  /\ cdcRet'[t] = -1
                  /\ errno' = ENXIO
                  /\ ~cdcStack'[t]
                  /\ cdcPc'[t] = "idle"
        /\ connected_' # connected_ =>
              /\ connWriter' = "usb"
              /\ connected_' = hostCdc
              /\ \A t \in CdcTasks : CdcCall(t)' = CdcCall(t)
      ]_vars

\* C36 witness: update() has set connected_ and cleared it again; a read
\* called after that returned -1 with ENXIO without a call into the USB
\* stack, while the other task's earlier write had gone through.
C36_Witness ==
    \E t, u \in CdcTasks :
        /\ ~connected_
        /\ connWriter = "usb"
        /\ cdcOp[t] = "read"
        /\ cdcRet[t] = -1
        /\ ~cdcStack[t]
        /\ errno = ENXIO
        /\ cdcOp[u] = "write"
        /\ cdcStack[u]
        /\ cdcRet[u] > 0

====
